---- MODULE Spec2Model ----
(***************************************************************************)
(* Lost-Watch-Finder: the image matcher (match_watch.py), its reference    *)
(* embedding cache, the JSON files it and the orchestrator write, and the  *)
(* session summary of the orchestrator (run_all.py).                       *)
(*                                                                         *)
(* Scores, thresholds and cutoffs are floats in the program; here they are *)
(* integers counting hundredths (0.80 is 80, -1.0 is -100).  Embeddings    *)
(* are short integer vectors whose cosine similarities are exact           *)
(* hundredths.                                                             *)
(***************************************************************************)
EXTENDS Integers, Sequences, FiniteSets, TLC

VARIABLES
    reference_embeddings,  \* WatchMatcher.reference_embeddings: ordered name -> embedding
    call,                  \* the arguments of the last call made
    ret,                   \* what that call returned
    json_file,             \* the text of the JSON file last written, or NoFile
    loaded,                \* what json.load last read back, or NotLoaded
    reference_folder,      \* the files of the reference image folder, in listing order
    cache_file,            \* reference_embeddings.pkl: its pickled mapping, or NoCache
    matcher_ready,         \* a WatchMatcher has been constructed
    scraped_images,        \* the session's scraped_images folders: name -> entries
    orchestrator,          \* the WatchFinderOrchestrator's fields, or NoOrchestrator
    session_summary,       \* what generate_session_summary built, or NoSummary
    config,                \* the WatchFinderConfig of the run, or NoConfig
    scrape,                \* how far run_all_scrapers has come, and what it has gathered
    clock,                 \* the wall clock, in ticks
    runs,                  \* the end-to-end runs started so far, in the order they started
    session_folders,       \* the sessions/ directory: session id -> what its folder holds
    latest_session_file,   \* web/latest_session.txt: a session id, or NoLatest
    matches,               \* the web application's module-level matches list
    downloads,             \* the image requests a scraper has made, and what came of them
    intermediate_files,    \* the working directory's results/ folder: file name -> listings
    sessions,              \* the sessions scraping eBay at the same time
    matched_dir,           \* web/static/matched: the names of the files in it
    conversation_history,  \* WatchChatbot.conversation_history: user id -> messages
    chat_log               \* every message added to a user's history, in the order added

matchVars == <<reference_embeddings, call, ret>>
jsonVars == <<json_file, loaded>>
cacheVars == <<reference_folder, cache_file, matcher_ready>>
sessionVars == <<scraped_images, orchestrator, session_summary>>
runVars == <<config, scrape>>
webVars == <<clock, runs, session_folders, latest_session_file, matches>>
downloadVars == <<downloads>>
appVars == <<intermediate_files, sessions, matched_dir,
            conversation_history, chat_log>>
vars == <<reference_embeddings, call, ret, json_file, loaded,
          reference_folder, cache_file, matcher_ready,
          scraped_images, orchestrator, session_summary,
          config, scrape, clock, runs, session_folders, latest_session_file,
          matches, downloads, intermediate_files, sessions,
          matched_dir, conversation_history, chat_log>>

(***************************************************************************)
(* Bounds of the model.                                                    *)
(***************************************************************************)
MaxRefs == 2        \* most reference images in the cache
MaxFiles == 2       \* most files in a folder of scraped images
MaxUpload == 2      \* most files in one upload request
MaxScraped == 4     \* most images a scraper leaves in its folder
ScoreSlack == 2     \* how far (in hundredths) a graded score may leave [-1, 1]

(***************************************************************************)
(* Python values.  A value carries its Python type, so that None, a str,   *)
(* a float and a bool are told apart.                                      *)
(***************************************************************************)
PyNone == [t |-> "NoneType"]
PyStr(s) == [t |-> "str", v |-> s]
PyFloat(x) == [t |-> "float", v |-> x]
PyInt(n) == [t |-> "int", v |-> n]
PyBool(b) == [t |-> "bool", v |-> b]
PyDict(d) == [t |-> "dict", v |-> d]
PyList(l) == [t |-> "list", v |-> l]
EmptyDict == [k \in {} |-> PyNone]

(***************************************************************************)
(* Embeddings and torch.cosine_similarity.                                 *)
(***************************************************************************)
RefNameOrder == <<"ref_a.jpg", "ref_b.jpg", "ref_c.jpg">>
RefNames == {RefNameOrder[i] : i \in 1..Len(RefNameOrder)}

\* image embeddings of the model's dimension
Embeddings == { <<1, 0>>, <<2, 0>>, <<-1, 0>>, <<4, 3>>, <<3, 4>> }
\* an embedding cached by a model of another dimension
StaleEmbedding == <<1, 0, 0>>

Abs(n) == IF n < 0 THEN -n ELSE n

RECURSIVE Dot(_, _)
Dot(a, b) == IF a = <<>> THEN 0 ELSE Head(a) * Head(b) + Dot(Tail(a), Tail(b))

RECURSIVE AbsSum(_)
AbsSum(a) == IF a = <<>> THEN 0 ELSE Abs(Head(a)) + AbsSum(Tail(a))

Norm(a) == CHOOSE n \in 0..AbsSum(a) : n * n = Dot(a, a)

\* torch.cosine_similarity raises on vectors of different sizes
SimilarityRaises(a, b) == Len(a) # Len(b)

CosineSimilarity_unnormalised(a, b) == Dot(a, b) * 100

\* x.y / max(|x| |y|, eps), in hundredths
CosineSimilarity(a, b) ==
    IF Norm(a) * Norm(b) = 0 THEN 0
    ELSE (Dot(a, b) * 100) \div (Norm(a) * Norm(b))

(***************************************************************************)
(* WatchMatcher.get_confidence_level                                       *)
(***************************************************************************)
\* threshold: float = 0.80, the default of match_single_image and batch_match
DefaultThreshold == 80
\* WatchFinderConfig.match_threshold
MatchThreshold == 80

VeryLikelyCutoff == 90
PossibleCutoff == 80
WeakCutoff == 70

get_confidence_level_inclusive(score) ==
    IF score >= VeryLikelyCutoff THEN "Very Likely Match"
    ELSE IF score >= PossibleCutoff THEN "Possible Match"
    ELSE IF score >= WeakCutoff THEN "Weak Match"
    ELSE "No Match"

get_confidence_level(score) ==
    IF score > VeryLikelyCutoff THEN "Very Likely Match"
    ELSE IF score > PossibleCutoff THEN "Possible Match"
    ELSE IF score > WeakCutoff THEN "Weak Match"
    ELSE "No Match"

(***************************************************************************)
(* WatchMatcher.match_single_image                                         *)
(***************************************************************************)
SentinelScore_zero == 100 - 100

SentinelScore == -100     \* best_score = -1.0

\* os.path.basename of a path kept as directory and file name
basename(path) == path.name

\* the loop over self.reference_embeddings.items(), from item i on
RECURSIVE MatchLoop(_, _, _, _)
MatchLoop(refs, test_embedding, i, acc) ==
    IF i > Len(refs) THEN acc
    ELSE IF SimilarityRaises(test_embedding, refs[i].emb)
         THEN [acc EXCEPT !.raised = TRUE]
    ELSE LET similarity == CosineSimilarity(test_embedding, refs[i].emb)
             better == similarity > acc.best_score
         IN  MatchLoop(refs, test_embedding, i + 1,
                 [raised |-> FALSE,
                  best_score |-> IF better THEN similarity ELSE acc.best_score,
                  best_match |-> IF better THEN PyStr(refs[i].name) ELSE acc.best_match,
                  all_scores |-> (refs[i].name :> PyFloat(similarity)) @@ acc.all_scores])

IsLikelyMatch_strict(best_score, threshold) == best_score > threshold

\* 'is_likely_match': best_score >= threshold
IsLikelyMatch(best_score, threshold) == best_score >= threshold

ErrorRecord_raises(path, message, now) == [exception |-> PyStr(message)]

ErrorRecord_untimed(path, message, now) ==
    [test_image |-> PyStr(basename(path)), error |-> PyStr(message)]

ErrorRecord(path, message, now) ==
    [test_image |-> PyStr(basename(path)),
     error |-> PyStr(message),
     timestamp |-> PyStr(now)]

\* image.kind: "image" (decodable, with the embedding the model gives it),
\* "corrupt" (Image.open raises) or "unencodable" (encode_image raises)
match_single_image(refs, path, image, threshold, now) ==
    IF image.kind = "corrupt" THEN ErrorRecord(path, "cannot identify image file", now)
    ELSE IF image.kind = "unencodable" THEN ErrorRecord(path, "encode_image failed", now)
    ELSE LET r == MatchLoop(refs, image.emb, 1,
                     [raised |-> FALSE, best_score |-> SentinelScore,
                      best_match |-> PyNone, all_scores |-> EmptyDict])
         IN  IF r.raised THEN ErrorRecord(path, "size mismatch", now)
             ELSE [test_image |-> PyStr(basename(path)),
                   best_match |-> r.best_match,
                   best_score |-> PyFloat(r.best_score),
                   is_likely_match |-> PyBool(IsLikelyMatch(r.best_score, threshold)),
                   confidence_level |-> PyStr(get_confidence_level(r.best_score)),
                   all_scores |-> PyDict(r.all_scores),
                   timestamp |-> PyStr(now)]

(***************************************************************************)
(* json.dump and json.load.  The text of a file is the sequence of its     *)
(* JSON tokens (white space left out).  A number token keeps its sign, its *)
(* integer part and the digits after the point; a token without fraction  *)
(* digits is read back as an int, one with them as a float.                *)
(***************************************************************************)
Punct(c) == [k |-> "punct", c |-> c]
Literal(c) == [k |-> "literal", c |-> c]
StringToken(str) == [k |-> "string", s |-> str]
NumberToken(neg, int, frac) == [k |-> "number", neg |-> neg, int |-> int, frac |-> frac]

\* the order in which the keys of a dict are written
KeyOrder ==
    <<"test_image", "best_match", "best_score", "is_likely_match", "confidence_level",
      "all_scores", "error", "timestamp",
      "title", "author", "subreddit", "score", "num_comments", "url", "listing_url",
      "image_path", "image_paths", "image_url", "price", "platform", "scraped_at",
      "search_query", "source">> \o RefNameOrder

DictKeys(d) == SelectSeq(KeyOrder, LAMBDA key : key \in DOMAIN d)

IntRepr(n) == <<NumberToken(n < 0, Abs(n), <<>>)>>

FloatRepr_bare(x) ==
    IF Abs(x) % 100 = 0 THEN <<NumberToken(x < 0, Abs(x) \div 100, <<>>)>>
    ELSE <<NumberToken(x < 0, Abs(x) \div 100,
             IF Abs(x) % 10 = 0 THEN <<(Abs(x) % 100) \div 10>>
             ELSE <<(Abs(x) % 100) \div 10, Abs(x) % 10>>)>>

\* float.__repr__: the shortest digits that read back as the same float, with
\* at least one digit after the point
FloatRepr(x) ==
    <<NumberToken(x < 0, Abs(x) \div 100,
         IF Abs(x) % 10 = 0 THEN <<(Abs(x) % 100) \div 10>>
         ELSE <<(Abs(x) % 100) \div 10, Abs(x) % 10>>)>>

RECURSIVE JsonEncode(_), EncodeItems(_, _), EncodeMembers(_, _, _)
JsonEncode(x) ==
    CASE x.t = "NoneType" -> <<Literal("null")>>
      [] x.t = "bool" -> <<Literal(IF x.v THEN "true" ELSE "false")>>
      [] x.t = "int" -> IntRepr(x.v)
      [] x.t = "float" -> FloatRepr(x.v)
      [] x.t = "str" -> <<StringToken(x.v)>>
      [] x.t = "list" -> <<Punct("[")>> \o EncodeItems(x.v, 1) \o <<Punct("]")>>
      [] x.t = "dict" -> <<Punct("{")>> \o EncodeMembers(x.v, DictKeys(x.v), 1) \o <<Punct("}")>>

EncodeItems(items, i) ==
    IF i > Len(items) THEN <<>>
    ELSE (IF i > 1 THEN <<Punct(",")>> ELSE <<>>)
         \o JsonEncode(items[i]) \o EncodeItems(items, i + 1)

EncodeMembers(d, keys, i) ==
    IF i > Len(keys) THEN <<>>
    ELSE (IF i > 1 THEN <<Punct(",")>> ELSE <<>>)
         \o <<StringToken(keys[i]), Punct(":")>> \o JsonEncode(d[keys[i]])
         \o EncodeMembers(d, keys, i + 1)

\* the value of a number token
ParseNumber(tok) ==
    LET sign == IF tok.neg THEN -1 ELSE 1
    IN  IF tok.frac = <<>> THEN PyInt(sign * tok.int)
        ELSE PyFloat(sign * (tok.int * 100 + tok.frac[1] * 10
                             + (IF Len(tok.frac) > 1 THEN tok.frac[2] ELSE 0)))

\* the parser: each operator returns the value read and the next position
RECURSIVE ParseValue(_, _), ParseItems(_, _, _), ParseMembers(_, _, _)
ParseValue(toks, i) ==
    LET tok == toks[i]
    IN  CASE tok.k = "literal" ->
                 [val |-> CASE tok.c = "null" -> PyNone
                            [] tok.c = "true" -> PyBool(TRUE)
                            [] tok.c = "false" -> PyBool(FALSE),
                  next |-> i + 1]
          [] tok.k = "number" -> [val |-> ParseNumber(tok), next |-> i + 1]
          [] tok.k = "string" -> [val |-> PyStr(tok.s), next |-> i + 1]
          [] tok.k = "punct" /\ tok.c = "[" -> ParseItems(toks, i + 1, <<>>)
          [] tok.k = "punct" /\ tok.c = "{" -> ParseMembers(toks, i + 1, EmptyDict)

ParseItems(toks, i, acc) ==
    IF toks[i] = Punct("]") THEN [val |-> PyList(acc), next |-> i + 1]
    ELSE IF toks[i] = Punct(",") THEN ParseItems(toks, i + 1, acc)
    ELSE LET item == ParseValue(toks, i)
         IN  ParseItems(toks, item.next, Append(acc, item.val))

ParseMembers(toks, i, acc) ==
    IF toks[i] = Punct("}") THEN [val |-> PyDict(acc), next |-> i + 1]
    ELSE IF toks[i] = Punct(",") THEN ParseMembers(toks, i + 1, acc)
    ELSE LET member == ParseValue(toks, i + 2)
         IN  ParseMembers(toks, member.next, (toks[i].s :> member.val) @@ acc)

JsonDecode(toks) == ParseValue(toks, 1).val

(***************************************************************************)
(* WatchMatcher.batch_match                                                *)
(***************************************************************************)
\* str.lower() of the extensions that occur
LowerCase == (".jpg" :> ".jpg") @@ (".PNG" :> ".png") @@ (".jpeg" :> ".jpeg")
             @@ (".json" :> ".json") @@ (".txt" :> ".txt") @@ ("" :> "")
             @@ (".bmp" :> ".bmp")

AcceptedExtensions == {".png", ".jpg", ".jpeg", ".webp", ".bmp"}

\* f.lower().endswith(('.png', '.jpg', '.jpeg', '.webp', '.bmp'))
IsImageFile(f) == LowerCase[f.ext] \in AcceptedExtensions

FileName(f) == f.stem \o f.ext

\* datetime.now().isoformat() at the successive readings of the clock
Clock == <<"2025-06-01T10:00:00.000001", "2025-06-01T10:00:00.000002",
           "2025-06-01T10:00:00.000003", "2025-06-01T10:00:00.000004",
           "2025-06-01T10:00:00.000005">>

\* a loop that gives up at the first image whose processing fails
RECURSIVE BatchLoop_stops(_, _, _, _, _)
BatchLoop_stops(refs, test_folder, test_images, threshold, i) ==
    IF i > Len(test_images) THEN <<>>
    ELSE LET result == match_single_image(refs,
                           [dir |-> test_folder, name |-> FileName(test_images[i])],
                           test_images[i].image, threshold, Clock[i])
         IN  IF "error" \in DOMAIN result THEN <<result>>
             ELSE <<result>> \o BatchLoop_stops(refs, test_folder, test_images, threshold, i + 1)

\* the loop over test_images: one match_single_image call per image file
RECURSIVE BatchLoop(_, _, _, _, _)
BatchLoop(refs, test_folder, test_images, threshold, i) ==
    IF i > Len(test_images) THEN <<>>
    ELSE <<match_single_image(refs,
               [dir |-> test_folder, name |-> FileName(test_images[i])],
               test_images[i].image, threshold, Clock[i])>>
         \o BatchLoop(refs, test_folder, test_images, threshold, i + 1)

\* listing: os.listdir(test_folder), as files with their contents
batch_match(refs, test_folder, listing, threshold) ==
    BatchLoop(refs, test_folder, SelectSeq(listing, IsImageFile), threshold, 1)

\* a list of dicts as the Python value json.dump is given
RECURSIVE AsPyDicts(_)
AsPyDicts(records) ==
    IF records = <<>> THEN <<>>
    ELSE <<PyDict(Head(records))>> \o AsPyDicts(Tail(records))

(***************************************************************************)
(* Inputs.                                                                 *)
(***************************************************************************)
Timestamps == {"2025-06-01T10:00:00.000001", "2025-06-01T10:00:00.000002"}
Thresholds == {t \in 0..100 : t % 10 = 0}
TestPaths == {[dir |-> "scraped_images/ebay", name |-> "ebay_1_101500.jpg"],
              [dir |-> "scraped_images/reddit", name |-> "reddit_1.png"]}
TestImages == {[kind |-> "image", emb |-> e] : e \in Embeddings}
                 \cup {[kind |-> "corrupt"], [kind |-> "unencodable"]}

\* the ordered mappings a cache can hold: distinct file names, in any order
RECURSIVE RefMappings(_)
RefMappings(n) ==
    IF n = 0 THEN {<<>>}
    ELSE LET shorter == RefMappings(n - 1)
         IN  shorter \cup
             {Append(m, [name |-> nm, emb |-> e]) :
                  m \in {s \in shorter : Len(s) = n - 1},
                  nm \in RefNames, e \in Embeddings \cup {StaleEmbedding}}

DistinctNames(m) == \A i, j \in 1..Len(m) : i # j => m[i].name # m[j].name

NoCall == [op |-> "none"]
NoFile == <<[k |-> "absent"]>>
NotLoaded == [t |-> "not loaded"]
NoCache == [k |-> "absent"]
NoOrchestrator == [phase |-> "none"]
NoSummary == [k |-> "none"]
NoFolders == <<>>
NoConfig == [k |-> "none"]
NotScraping == [pc |-> "none"]
NoLatest == [k |-> "absent"]
NoDownload == [scraper |-> "none"]

\* no session is run
NoSession ==
    /\ scraped_images = NoFolders
    /\ orchestrator = NoOrchestrator
    /\ session_summary = NoSummary

\* run_all_scrapers is not running
NoScraping ==
    /\ config = NoConfig
    /\ scrape = NotScraping

\* no end-to-end run was started, from the command line or the web
NoRuns ==
    /\ clock = 0
    /\ runs = <<>>
    /\ session_folders = <<>>
    /\ latest_session_file = NoLatest
    /\ matches = <<>>

\* no scraper is downloading
NoDownloads == downloads = NoDownload

\* no session of the web application is scraping
NoApp ==
    /\ intermediate_files = <<>>
    /\ sessions = <<>>
    /\ matched_dir = {}
    /\ conversation_history = <<>>
    /\ chat_log = <<>>

\* a process whose matcher was constructed before the calls looked at
MatcherConstructed ==
    /\ reference_folder = <<>>
    /\ cache_file = NoCache
    /\ matcher_ready = TRUE

(***************************************************************************)
(* The matcher answering single images.                                    *)
(***************************************************************************)
InitMatch ==
    /\ reference_embeddings \in {m \in RefMappings(MaxRefs) : DistinctNames(m)}
    /\ call = NoCall
    /\ ret = PyNone
    /\ json_file = NoFile
    /\ loaded = NotLoaded
    /\ MatcherConstructed
    /\ NoSession
    /\ NoScraping
    /\ NoRuns
    /\ NoDownloads
    /\ NoApp

\* a command-line run in single mode makes one call and exits
MatchSingleImage ==
    /\ call = NoCall
    /\ \E path \in TestPaths, image \in TestImages, threshold \in Thresholds, now \in Timestamps :
         /\ call' = [op |-> "match_single_image", test_image_path |-> path,
                     image |-> image, threshold |-> threshold]
         /\ ret' = match_single_image(reference_embeddings, path, image, threshold, now)
         /\ UNCHANGED <<reference_embeddings, jsonVars, cacheVars, sessionVars, runVars, webVars, downloadVars, appVars>>

NextMatch == MatchSingleImage

SpecMatch == InitMatch /\ [][NextMatch]_vars

(***************************************************************************)
(* Properties of match_single_image.                                       *)
(***************************************************************************)
Returned == call.op = "match_single_image"
Succeeded == Returned /\ "error" \notin DOMAIN ret

MatchRecordFields == {"test_image", "best_match", "best_score", "is_likely_match",
                      "confidence_level", "all_scores", "timestamp"}
ErrorRecordFields == {"test_image", "error", "timestamp"}

\* positions of the references whose cached embedding equals the query embedding
EqualRefs == {i \in 1..Len(reference_embeddings) :
                 reference_embeddings[i].emb = call.image.emb}

ScoreOf(i) == ret.all_scores.v[reference_embeddings[i].name].v

Cex_C3 ==
    Succeeded =>
        \A i \in EqualRefs :
            /\ ScoreOf(i) = 100
            /\ ret.best_score.v = 100
            /\ ret.best_match = PyStr(reference_embeddings[i].name)

\* C3 as amended: a query embedding equal to a reference embedding gives that
\* reference similarity 1.0 and best_score 1.0, and best_match is the first
\* reference of the mapping that scores 1.0 (that reference, or an earlier
\* one with the same or a parallel embedding).
Thm_C3 ==
    Succeeded =>
        \A i \in EqualRefs :
            /\ ScoreOf(i) = 100
            /\ ret.best_score.v = 100
            /\ \E j \in 1..i :
                  /\ ret.best_match = PyStr(reference_embeddings[j].name)
                  /\ ScoreOf(j) = 100
                  /\ \A k \in 1..(j - 1) : ScoreOf(k) < 100

\* the query equals the second reference, the first reference is different,
\* and the second is returned
Wit_C3 ==
    /\ Succeeded
    /\ 2 \in EqualRefs
    /\ 1 \notin EqualRefs
    /\ ret.best_match = PyStr(reference_embeddings[2].name)
    /\ ret.best_score.v = 100

\* C4: with an empty reference set a decodable image gives a normal record
\* with best_match None, best_score -1.0 and an empty all_scores.
Thm_C4 ==
    (Returned /\ call.image.kind = "image" /\ reference_embeddings = <<>>) =>
        /\ DOMAIN ret = MatchRecordFields
        /\ ret.best_match = PyNone
        /\ ret.best_score = PyFloat(-100)
        /\ ret.all_scores = PyDict(EmptyDict)

Wit_C4 ==
    /\ Returned
    /\ call.image.kind = "image"
    /\ reference_embeddings = <<>>
    /\ ret.best_match = PyNone

\* C5: with a non-empty reference set and a successful call, best_score is
\* the maximum of all_scores and best_match names a reference whose score
\* is best_score.
Cex_C5 ==
    (Succeeded /\ reference_embeddings # <<>>) =>
        /\ \A n \in DOMAIN ret.all_scores.v : ret.all_scores.v[n].v <= ret.best_score.v
        /\ ret.best_match.t = "str"
        /\ ret.best_match.v \in DOMAIN ret.all_scores.v
        /\ ret.all_scores.v[ret.best_match.v].v = ret.best_score.v

\* C6: if decoding, embedding or similarity fails, match_single_image returns
\* a record with exactly the test image's file name, the error message and a
\* timestamp.
CallFails ==
    /\ Returned
    /\ \/ call.image.kind \in {"corrupt", "unencodable"}
       \/ /\ call.image.kind = "image"
          /\ \E i \in 1..Len(reference_embeddings) :
                 SimilarityRaises(call.image.emb, reference_embeddings[i].emb)

Thm_C6 ==
    CallFails =>
        /\ DOMAIN ret = ErrorRecordFields
        /\ ret.test_image = PyStr(call.test_image_path.name)
        /\ ret.error.t = "str"
        /\ ret.timestamp.t = "str"
        /\ {"best_match", "best_score", "is_likely_match"} \cap DOMAIN ret = {}

\* the similarity of the second reference fails after the first was scored
Wit_C6 ==
    /\ CallFails
    /\ call.image.kind = "image"
    /\ Len(reference_embeddings) = 2
    /\ ~SimilarityRaises(call.image.emb, reference_embeddings[1].emb)
    /\ "error" \in DOMAIN ret

(***************************************************************************)
(* get_confidence_level applied to scores.                                 *)
(***************************************************************************)
Scores == (SentinelScore - ScoreSlack)..(100 + ScoreSlack)

InitConf ==
    /\ reference_embeddings = <<>>
    /\ call = NoCall
    /\ ret = PyNone
    /\ json_file = NoFile
    /\ loaded = NotLoaded
    /\ MatcherConstructed
    /\ NoSession
    /\ NoScraping
    /\ NoRuns
    /\ NoDownloads
    /\ NoApp

GetConfidenceLevel ==
    \E score \in Scores :
        /\ call' = [op |-> "get_confidence_level", score |-> score]
        /\ ret' = PyStr(get_confidence_level(score))
        /\ UNCHANGED <<reference_embeddings, jsonVars, cacheVars, sessionVars, runVars, webVars, downloadVars, appVars>>

NextConf == GetConfidenceLevel

SpecConf == InitConf /\ [][NextConf]_vars

Graded == call.op = "get_confidence_level"

\* the order No Match < Weak Match < Possible Match < Very Likely Match
LabelRank(label) ==
    CASE label = "No Match" -> 0
      [] label = "Weak Match" -> 1
      [] label = "Possible Match" -> 2
      [] label = "Very Likely Match" -> 3

CutoffsExact ==
    Graded =>
        /\ call.score > 90 => ret = PyStr("Very Likely Match")
        /\ (call.score > 80 /\ call.score <= 90) => ret = PyStr("Possible Match")
        /\ (call.score > 70 /\ call.score <= 80) => ret = PyStr("Weak Match")
        /\ call.score <= 70 => ret = PyStr("No Match")

LabelMonotonic ==
    (Graded /\ Graded' /\ call.score <= call'.score) =>
        LabelRank(ret.v) <= LabelRank(ret'.v)

\* C2: get_confidence_level is monotonic in the score over No Match < Weak
\* Match < Possible Match < Very Likely Match, and the label changes exactly
\* at 0.90, 0.80 and 0.70, each cutoff itself taking the lower label.
Thm_C2 == [](CutoffsExact) /\ [][LabelMonotonic]_vars

\* a score exactly on the 0.90 cutoff is graded Possible Match
Wit_C2 == Graded /\ call.score = 90 /\ ret = PyStr("Possible Match")

(***************************************************************************)
(* Folders of scraped images matched in one batch, the JSON files written  *)
(* by batch_match and by the orchestrator, and their reading back.         *)
(***************************************************************************)
TestFolderFiles ==
    {[stem |-> "ebay_1_101500", ext |-> ".jpg", image |-> [kind |-> "image", emb |-> <<1, 0>>]],
     [stem |-> "ebay_1_101500", ext |-> ".jpg", image |-> [kind |-> "corrupt"]],
     [stem |-> "ebay_2_101501", ext |-> ".PNG", image |-> [kind |-> "image", emb |-> <<4, 3>>]],
     [stem |-> "ebay_2_101501", ext |-> ".PNG", image |-> [kind |-> "unencodable"]],
     [stem |-> "ebay_3_101502", ext |-> ".jpeg", image |-> [kind |-> "image", emb |-> <<-1, 0>>]],
     [stem |-> "ebay_results", ext |-> ".json", image |-> [kind |-> "corrupt"]]}

\* the directory listings of at most n files, no file name twice
RECURSIVE Listings(_)
Listings(n) ==
    IF n = 0 THEN {<<>>}
    ELSE LET shorter == Listings(n - 1)
         IN  shorter \cup
             {Append(l, f) : l \in {s \in shorter : Len(s) = n - 1},
                             f \in TestFolderFiles}

DistinctFiles(l) ==
    \A i, j \in 1..Len(l) : i # j => FileName(l[i]) # FileName(l[j])

\* the thresholds the callers pass: the orchestrator's default and the chat's
BatchThresholds == {60, 80}

OutputFiles == {PyNone, PyStr("matches/ebay_matches.json")}

\* listing records as the scrapers build them
EbayListing(n, title) ==
    PyDict([title |-> PyStr(title), url |-> PyStr("https://www.ebay.com/itm/1"),
            image_path |-> PyStr(n), image_url |-> PyStr("https://i.ebayimg.com/1.jpg"),
            price |-> PyStr("$1,250.00"), scraped_at |-> PyStr(Clock[1]),
            search_query |-> PyStr("patek philippe")])

FacebookListing(price) ==
    PyDict([title |-> PyStr("Vintage watch"), url |-> PyStr("https://www.facebook.com/marketplace/item/1"),
            listing_url |-> PyStr("https://www.facebook.com/marketplace/item/1"),
            price |-> price, image_path |-> PyStr("facebook/fb_1.jpg"),
            image_url |-> PyStr("https://scontent.xx.fbcdn.net/1.jpg"),
            platform |-> PyStr("facebook"), scraped_at |-> PyStr(Clock[2]),
            search_query |-> PyStr("patek philippe"), source |-> PyStr("facebook_marketplace")])

RedditPost(score, paths) ==
    PyDict([title |-> PyStr("[WTS] Nautilus"), author |-> PyStr("unknown"),
            subreddit |-> PyStr("Watches"), score |-> PyInt(score), num_comments |-> PyInt(0),
            url |-> PyStr("https://reddit.com/r/Watches/1"), image_paths |-> PyList(paths),
            scraped_at |-> PyStr(Clock[3]), search_query |-> PyStr("patek philippe"),
            source |-> PyStr("reddit")])

ScrapedResults ==
    {<<>>,
     <<EbayListing("ebay/ebay_1_101500.jpg", "Patek Philippe Nautilus")>>,
     <<EbayListing("ebay/ebay_1_101500.jpg", "Patek Philippe Nautilus"),
       EbayListing("ebay/ebay_2_101501.jpg", "Rolex")>>,
     <<FacebookListing(PyNone)>>,
     <<FacebookListing(PyStr("$900"))>>,
     <<RedditPost(12, <<PyStr("reddit/a.jpg")>>)>>,
     <<RedditPost(-3, <<PyStr("reddit/a.jpg"), PyStr("reddit/b.png")>>)>>,
     <<RedditPost(0, <<PyStr("reddit/a.jpg")>>), FacebookListing(PyNone)>>}

InitBatch ==
    /\ reference_embeddings \in {m \in RefMappings(MaxRefs) : DistinctNames(m)}
    /\ call = NoCall
    /\ ret = PyNone
    /\ json_file = NoFile
    /\ loaded = NotLoaded
    /\ MatcherConstructed
    /\ NoSession
    /\ NoScraping
    /\ NoRuns
    /\ NoDownloads
    /\ NoApp

\* batch_match(test_folder, threshold, output_file)
BatchMatch ==
    /\ call = NoCall
    /\ \E listing \in {l \in Listings(MaxFiles) : DistinctFiles(l)},
          threshold \in BatchThresholds, output_file \in OutputFiles :
         LET results == batch_match(reference_embeddings, "scraped_images/ebay",
                                    listing, threshold)
         IN  /\ call' = [op |-> "batch_match", listing |-> listing,
                         threshold |-> threshold, output_file |-> output_file]
             /\ ret' = PyList(AsPyDicts(results))
             /\ json_file' = IF output_file # PyNone
                             THEN JsonEncode(PyList(AsPyDicts(results)))
                             ELSE json_file
             /\ UNCHANGED <<reference_embeddings, loaded, cacheVars, sessionVars, runVars, webVars, downloadVars, appVars>>

\* _save_results_to_session(results, platform_name, session_result_filename);
\* written = FALSE: opening or writing the file raises
SaveResultsToSession ==
    /\ call = NoCall
    /\ \E results \in ScrapedResults, written \in BOOLEAN :
         /\ call' = [op |-> "_save_results_to_session", results |-> results]
         /\ IF results = <<>> THEN
                /\ ret' = PyNone
                /\ UNCHANGED json_file
            ELSE IF written THEN
                /\ json_file' = JsonEncode(PyList(results))
                /\ ret' = PyStr("results/ebay_results.json")
            ELSE
                /\ ret' = PyNone
                /\ UNCHANGED json_file
         /\ UNCHANGED <<reference_embeddings, loaded, cacheVars, sessionVars, runVars, webVars, downloadVars, appVars>>

\* json.load of the file written
JsonLoad ==
    /\ json_file # NoFile
    /\ loaded = NotLoaded
    /\ loaded' = JsonDecode(json_file)
    /\ UNCHANGED <<reference_embeddings, call, ret, json_file, cacheVars, sessionVars, runVars, webVars, downloadVars, appVars>>

NextBatch == BatchMatch \/ SaveResultsToSession \/ JsonLoad

SpecBatch == InitBatch /\ [][NextBatch]_vars

BatchReturned == call.op = "batch_match"

\* the image files of the listing batch_match was given
ImageFiles == SelectSeq(call.listing, IsImageFile)

\* the processing of an image file fails
ImageFails(f) ==
    \/ f.image.kind \in {"corrupt", "unencodable"}
    \/ \E i \in 1..Len(reference_embeddings) :
           SimilarityRaises(f.image.emb, reference_embeddings[i].emb)

\* the records of the output file, when batch_match wrote one
WrittenRecords ==
    IF BatchReturned /\ call.output_file # PyNone THEN JsonDecode(json_file).v ELSE <<>>

\* C7 as stated: every record batch_match returns or writes has exactly the
\* seven fields of a match record.
Cex_C7 ==
    BatchReturned =>
        /\ \A i \in 1..Len(ret.v) : DOMAIN ret.v[i].v = MatchRecordFields
        /\ \A i \in 1..Len(WrittenRecords) : DOMAIN WrittenRecords[i].v = MatchRecordFields

\* C7 as amended: the record returned or written for an image that was
\* processed has exactly the seven fields of a match record; the record of
\* an image whose processing failed has exactly test_image, error and
\* timestamp.
RecordShape(rec, f) ==
    DOMAIN rec.v = IF ImageFails(f) THEN ErrorRecordFields ELSE MatchRecordFields

Thm_C7 ==
    BatchReturned =>
        /\ Len(ret.v) = Len(ImageFiles)
        /\ \A i \in 1..Len(ret.v) : RecordShape(ret.v[i], ImageFiles[i])
        /\ call.output_file # PyNone =>
              /\ Len(WrittenRecords) = Len(ImageFiles)
              /\ \A i \in 1..Len(WrittenRecords) :
                     RecordShape(WrittenRecords[i], ImageFiles[i])

\* a batch written to a file with a match record and an error record in it
Wit_C7 ==
    /\ BatchReturned
    /\ call.output_file # PyNone
    /\ \E i, j \in 1..Len(WrittenRecords) :
           /\ DOMAIN WrittenRecords[i].v = MatchRecordFields
           /\ DOMAIN WrittenRecords[j].v = ErrorRecordFields

\* the Python value that was given to json.dump
Dumped ==
    IF BatchReturned THEN ret ELSE PyList(call.results)

\* C8: a result record (scraped listing or match record, best_match None
\* included) written to JSON and read back has the same fields, and the
\* same value and type in each field.
Thm_C8 ==
    loaded # NotLoaded =>
        /\ loaded.t = "list"
        /\ Len(loaded.v) = Len(Dumped.v)
        /\ \A i \in 1..Len(loaded.v) :
              /\ loaded.v[i].t = "dict"
              /\ DOMAIN loaded.v[i].v = DOMAIN Dumped.v[i].v
              /\ \A field \in DOMAIN loaded.v[i].v :
                     loaded.v[i].v[field] = Dumped.v[i].v[field]

\* a match record with best_match None and best_score -1.0 was read back
Wit_C8 ==
    /\ loaded # NotLoaded
    /\ BatchReturned
    /\ \E i \in 1..Len(loaded.v) :
           /\ "best_match" \in DOMAIN loaded.v[i].v
           /\ loaded.v[i].v.best_match = PyNone
           /\ loaded.v[i].v.best_score = PyFloat(-100)

(***************************************************************************)
(* The reference embedding cache: WatchMatcher.__init__,                   *)
(* load_or_create_cache and create_reference_cache, the uploads that       *)
(* change the reference folder, and the deletion of the cache file.        *)
(***************************************************************************)
Pickle(obj) == [k |-> "pickle", obj |-> obj]
Unpickle(file) == file.obj

\* the loop of create_reference_cache over os.listdir(self.reference_folder):
\* a file that is not an image by its name is passed over, one that cannot
\* be opened or encoded is reported and skipped
RECURSIVE CacheLoop(_, _, _)
CacheLoop(folder, i, embeddings) ==
    IF i > Len(folder) THEN embeddings
    ELSE IF IsImageFile(folder[i]) /\ folder[i].image.kind = "image"
         THEN CacheLoop(folder, i + 1,
                  Append(embeddings, [name |-> FileName(folder[i]),
                                      emb |-> folder[i].image.emb]))
    ELSE CacheLoop(folder, i + 1, embeddings)

\* create_reference_cache: the embeddings, and the cache file holding them
create_reference_cache(folder) ==
    LET embeddings == CacheLoop(folder, 1, <<>>)
    IN  [reference_embeddings |-> embeddings, cache_file |-> Pickle(embeddings)]

load_or_create_cache_refreshing(cache, folder) == create_reference_cache(folder)

\* load_or_create_cache: os.path.exists(self.cache_file) decides
load_or_create_cache(cache, folder) ==
    IF cache # NoCache
    THEN [reference_embeddings |-> Unpickle(cache), cache_file |-> cache]
    ELSE create_reference_cache(folder)

\* the files a browser can send
UploadFiles ==
    {[stem |-> "ref_a", ext |-> ".jpg", image |-> [kind |-> "image", emb |-> <<1, 0>>]],
     [stem |-> "ref_a", ext |-> ".jpg", image |-> [kind |-> "image", emb |-> <<3, 4>>]],
     [stem |-> "ref_b", ext |-> ".PNG", image |-> [kind |-> "image", emb |-> <<4, 3>>]],
     [stem |-> "ref_c", ext |-> ".jpg", image |-> [kind |-> "corrupt"]],
     [stem |-> "notes", ext |-> ".txt", image |-> [kind |-> "corrupt"]],
     [stem |-> "", ext |-> "", image |-> [kind |-> "corrupt"]]}

RECURSIVE UploadRequests(_)
UploadRequests(n) ==
    IF n = 0 THEN {<<>>}
    ELSE LET shorter == UploadRequests(n - 1)
         IN  shorter \cup
             {Append(r, f) : r \in {s \in shorter : Len(s) = n - 1}, f \in UploadFiles}

ALLOWED_EXTENSIONS == {".png", ".jpg", ".jpeg", ".webp"}

\* "." in filename and filename.rsplit(".", 1)[1].lower() in ALLOWED_EXTENSIONS
allowed_file(f) == f.ext # "" /\ LowerCase[f.ext] \in ALLOWED_EXTENSIONS

\* file.save(filepath): a file of that name is replaced
SaveFile(folder, f) ==
    IF \E i \in 1..Len(folder) : FileName(folder[i]) = FileName(f)
    THEN [i \in 1..Len(folder) |->
             IF FileName(folder[i]) = FileName(f) THEN f ELSE folder[i]]
    ELSE Append(folder, f)

\* the loop saving the uploaded files that have a name and an allowed extension
RECURSIVE SaveLoop(_, _, _)
SaveLoop(files, i, folder) ==
    IF i > Len(files) THEN folder
    ELSE IF FileName(files[i]) # "" /\ allowed_file(files[i])
         THEN SaveLoop(files, i + 1, SaveFile(folder, files[i]))
    ELSE SaveLoop(files, i + 1, folder)

InitCache ==
    /\ reference_folder \in {<<>>} \cup {<<f>> : f \in {u \in UploadFiles : allowed_file(u)}}
    /\ cache_file = NoCache
    /\ matcher_ready = FALSE
    /\ reference_embeddings = <<>>
    /\ call = NoCall
    /\ ret = PyNone
    /\ json_file = NoFile
    /\ loaded = NotLoaded
    /\ NoSession
    /\ NoScraping
    /\ NoRuns
    /\ NoDownloads
    /\ NoApp

\* WatchMatcher(reference_folder): __init__ runs load_or_create_cache
ConstructMatcher ==
    LET made == load_or_create_cache(cache_file, reference_folder)
    IN  /\ call' = [op |-> "WatchMatcher", cache_existed |-> cache_file # NoCache,
                    listing |-> reference_folder]
        /\ ret' = PyNone
        /\ reference_embeddings' = made.reference_embeddings
        /\ cache_file' = made.cache_file
        /\ matcher_ready' = TRUE
        /\ UNCHANGED <<reference_folder, jsonVars, sessionVars, runVars, webVars, downloadVars, appVars>>

\* a matching call on the constructed matcher
MatchWithCache ==
    /\ matcher_ready
    /\ \E path \in TestPaths,
          image \in {[kind |-> "image", emb |-> <<1, 0>>], [kind |-> "corrupt"]} :
         /\ call' = [op |-> "match_single_image", test_image_path |-> path,
                     image |-> image, threshold |-> DefaultThreshold]
         /\ ret' = match_single_image(reference_embeddings, path, image,
                                      DefaultThreshold, Clock[1])
         /\ UNCHANGED <<reference_embeddings, jsonVars, cacheVars, sessionVars, runVars, webVars, downloadVars, appVars>>

\* upload_reference: the old reference images are removed, the uploaded
\* files with an allowed name are saved
UploadReference ==
    \E files \in UploadRequests(MaxUpload) :
        /\ call' = [op |-> "upload_reference", files |-> files]
        /\ IF files = <<>> \/ \A i \in 1..Len(files) : FileName(files[i]) = ""
           THEN /\ ret' = PyInt(400)
                /\ UNCHANGED reference_folder
           ELSE LET saved == SaveLoop(files, 1, <<>>)
                IN  /\ reference_folder' = saved
                    /\ ret' = IF saved = <<>> THEN PyInt(400) ELSE PyInt(200)
        /\ UNCHANGED <<reference_embeddings, jsonVars, cache_file, matcher_ready, sessionVars, runVars, webVars, downloadVars, appVars>>

\* the cache file is deleted by hand
DeleteCacheFile ==
    /\ cache_file # NoCache
    /\ cache_file' = NoCache
    /\ call' = [op |-> "rm reference_embeddings.pkl"]
    /\ ret' = PyNone
    /\ UNCHANGED <<reference_embeddings, jsonVars, reference_folder, matcher_ready, sessionVars, runVars, webVars, downloadVars, appVars>>

NextCache == ConstructMatcher \/ MatchWithCache \/ UploadReference \/ DeleteCacheFile

SpecCache == InitCache /\ [][NextCache]_vars

\* the embeddings of the image files of a folder that can be decoded
FolderEmbeddings(folder) ==
    LET usable == SelectSeq(folder,
                      LAMBDA f : LowerCase[f.ext] \in AcceptedExtensions
                                 /\ f.image.kind = "image")
    IN  [i \in 1..Len(usable) |-> [name |-> FileName(usable[i]), emb |-> usable[i].image.emb]]

\* a matcher constructed while the cache file existed holds the file's mapping
UsesCachedMapping ==
    (call.op = "WatchMatcher" /\ call.cache_existed) =>
        /\ cache_file # NoCache
        /\ reference_embeddings = Unpickle(cache_file)

\* an existing cache file is only ever deleted, never rewritten
NeverRewritten ==
    cache_file # NoCache => cache_file' \in {cache_file, NoCache}

\* the file is written only by a construction that found it absent, from the
\* folder as it is then
WrittenOnlyWhenAbsent ==
    (cache_file' # cache_file /\ cache_file' # NoCache) =>
        /\ cache_file = NoCache
        /\ call'.op = "WatchMatcher"
        /\ ~call'.cache_existed
        /\ cache_file' = Pickle(FolderEmbeddings(reference_folder))
        /\ reference_embeddings' = FolderEmbeddings(reference_folder)

\* C9: the cache is invalidated only by deleting the cache file: while the
\* file exists no construction, matching call or change of the reference
\* folder rewrites it, every new matcher uses the mapping stored in it, and
\* the embeddings are recomputed and the file written only by a construction
\* that finds the file absent.
Thm_C9 == [](UsesCachedMapping) /\ [][NeverRewritten /\ WrittenOnlyWhenAbsent]_vars

\* a matcher constructed from an existing cache file while the reference
\* folder holds other images than the cached ones
Wit_C9 ==
    /\ call.op = "WatchMatcher"
    /\ call.cache_existed
    /\ reference_embeddings # <<>>
    /\ reference_embeddings # FolderEmbeddings(call.listing)

(***************************************************************************)
(* The orchestrator after scraping: run_matching_analysis over the image   *)
(* folders and generate_session_summary.                                   *)
(***************************************************************************)
TopMatches == 10

\* the extensions run_matching_analysis looks for (no .bmp)
AnalysisExtensions == {".jpg", ".jpeg", ".png", ".webp"}

IsAnalysisImage(f) == LowerCase[f.ext] \in AnalysisExtensions

IsDir(f) == f.image.kind = "directory"

\* assignment d[key] = value on a dict kept as its items in insertion order
DictSet(d, key, value) ==
    IF \E i \in 1..Len(d) : d[i].key = key
    THEN [i \in 1..Len(d) |-> IF d[i].key = key THEN [key |-> key, value |-> value] ELSE d[i]]
    ELSE Append(d, [key |-> key, value |-> value])

\* the first subfolder, in listing order, that holds images
RECURSIVE FirstImageSubfolder(_, _)
FirstImageSubfolder(entries, i) ==
    IF i > Len(entries) THEN 0
    ELSE IF IsDir(entries[i]) /\ SelectSeq(entries[i].image.files, IsAnalysisImage) # <<>>
         THEN i
    ELSE FirstImageSubfolder(entries, i + 1)

\* [r for r in results if r.get('is_likely_match', False)]
IsLikely(r) == "is_likely_match" \in DOMAIN r /\ r.is_likely_match.v

\* the body of the loop of run_matching_analysis for one folder
AnalyseFolder(refs, disk, folder, threshold, writable, match_results) ==
    IF ~disk[folder].exists THEN match_results
    ELSE
    LET entries == disk[folder].entries
        direct == SelectSeq(entries, IsAnalysisImage)
        sub == IF direct = <<>> THEN FirstImageSubfolder(entries, 1) ELSE 0
        folder_name == IF sub > 0 THEN FileName(entries[sub]) ELSE folder
        listing == IF sub > 0 THEN entries[sub].image.files ELSE entries
    IN  IF direct = <<>> /\ sub = 0 THEN match_results
        ELSE IF ~writable
             THEN DictSet(match_results, folder_name,
                      [error |-> PyStr("No such file or directory")])
        ELSE LET results == batch_match(refs, folder_name, listing, threshold)
                 likely_matches == SelectSeq(results, IsLikely)
             IN  DictSet(match_results, folder_name,
                     [total_images |-> Len(results),
                      likely_matches |-> Len(likely_matches),
                      match_details |-> likely_matches])

RECURSIVE AnalysisLoop(_, _, _, _, _, _, _)
AnalysisLoop(refs, disk, folders, i, threshold, writable, match_results) ==
    IF i > Len(folders) THEN match_results
    ELSE AnalysisLoop(refs, disk, folders, i + 1, threshold, writable,
             AnalyseFolder(refs, disk, folders[i], threshold, writable, match_results))

\* match['platform'] = platform on every record of match_details
RECURSIVE TagPlatform(_, _)
TagPlatform(details, platform) ==
    IF details = <<>> THEN <<>>
    ELSE <<("platform" :> PyStr(platform)) @@ Head(details)>>
         \o TagPlatform(Tail(details), platform)

Tagged(item) ==
    IF "match_details" \in DOMAIN item.value
    THEN [item EXCEPT !.value.match_details = TagPlatform(@, item.key)]
    ELSE item

\* the loop collecting all_matches over self.match_results.items()
RECURSIVE CollectMatches(_, _)
CollectMatches(match_results, i) ==
    IF i > Len(match_results) THEN <<>>
    ELSE (IF "match_details" \in DOMAIN match_results[i].value
          THEN Tagged(match_results[i]).value.match_details
          ELSE <<>>)
         \o CollectMatches(match_results, i + 1)

\* key=lambda x: x.get('best_score', 0)
SortKey(x) == IF "best_score" \in DOMAIN x THEN x.best_score.v ELSE 0

InsertPlace_ascending(sorted, x) == Cardinality({i \in 1..Len(sorted) : SortKey(sorted[i]) <= SortKey(x)})

\* where a record goes in a list sorted by falling key: behind the records
\* whose key is not smaller
InsertPlace(sorted, x) == Cardinality({i \in 1..Len(sorted) : SortKey(sorted[i]) >= SortKey(x)})

\* all_matches.sort(key=..., reverse=True): stable, highest score first
RECURSIVE SortByScore(_, _)
SortByScore(all_matches, sorted) ==
    IF all_matches = <<>> THEN sorted
    ELSE LET x == Head(all_matches)
             k == InsertPlace(sorted, x)
         IN  SortByScore(Tail(all_matches),
                 SubSeq(sorted, 1, k) \o <<x>> \o SubSeq(sorted, k + 1, Len(sorted)))

\* all_matches[:10]
FirstN(list, n) == SubSeq(list, 1, IF Len(list) < n THEN Len(list) ELSE n)

RECURSIVE SumOver(_, _, _)
SumOver(match_results, field, i) ==
    IF i > Len(match_results) THEN 0
    ELSE (IF "error" \notin DOMAIN match_results[i].value
          THEN match_results[i].value[field] ELSE 0)
         + SumOver(match_results, field, i + 1)

generate_session_summary(match_results) ==
    [total_images_analyzed |-> SumOver(match_results, "total_images", 1),
     total_likely_matches |-> SumOver(match_results, "likely_matches", 1),
     top_matches |-> FirstN(SortByScore(CollectMatches(match_results, 1), <<>>), TopMatches)]

(***************************************************************************)
(* A session after its scraping phase.                                     *)
(***************************************************************************)
\* the images a scraper can have downloaded
ScrapedKinds == {<<1, 0>>, <<3, 4>>}

RECURSIVE ScrapedListings(_)
ScrapedListings(n) ==
    IF n = 0 THEN {<<>>}
    ELSE LET shorter == ScrapedListings(n - 1)
         IN  shorter \cup
             {Append(l, e) : l \in {s \in shorter : Len(s) = n - 1}, e \in ScrapedKinds}

\* scrapers number their files: <platform>_<count>.jpg
Numbered == <<"1", "2", "3", "4", "5", "6">>

NumberedFiles(platform, embs) ==
    [i \in 1..Len(embs) |->
        [stem |-> platform \o "_" \o Numbered[i], ext |-> ".jpg",
         image |-> [kind |-> "image", emb |-> embs[i]]]]

ImageFile(stem, ext, emb) == [stem |-> stem, ext |-> ext, image |-> [kind |-> "image", emb |-> emb]]

\* a folder with every sort of entry: upper-case and .bmp names, a file
\* that is no image, an image that cannot be decoded
FacebookFolder ==
    <<ImageFile("facebook_1", ".jpg", <<1, 0>>),
      ImageFile("facebook_2", ".PNG", <<4, 3>>),
      ImageFile("facebook_3", ".bmp", <<1, 0>>),
      ImageFile("facebook_4", ".jpeg", <<2, 0>>),
      [stem |-> "facebook_5", ext |-> ".jpg", image |-> [kind |-> "corrupt"]],
      [stem |-> "facebook_results", ext |-> ".json", image |-> [kind |-> "corrupt"]]>>

Subfolder(name, files) == [stem |-> name, ext |-> "", image |-> [kind |-> "directory", files |-> files]]

\* the reddit folder: missing, empty, with images, or with subfolders only
RedditFolders ==
    {[exists |-> FALSE, entries |-> <<>>],
     [exists |-> TRUE, entries |-> <<>>],
     [exists |-> TRUE, entries |-> <<ImageFile("ebay_1", ".jpg", <<4, 3>>)>>],
     [exists |-> TRUE, entries |-> <<Subfolder("empty", <<>>),
                                     Subfolder("ebay", <<ImageFile("ebay_1", ".jpg", <<4, 3>>)>>)>>]}

SessionRefs == {<<[name |-> "ref_a.jpg", emb |-> <<1, 0>>]>>,
                <<[name |-> "ref_a.jpg", emb |-> <<4, 3>>],
                  [name |-> "ref_b.jpg", emb |-> <<3, 4>>]>>}

\* how the session stands: the matcher could not be built, the matches
\* folder cannot be written, or all is well
SessionFaults == {"none", "no matcher", "matches unwritable"}

InitSession ==
    /\ \E ebay \in ScrapedListings(MaxScraped), poshmark \in ScrapedListings(MaxScraped),
          reddit \in RedditFolders :
         scraped_images = ("reddit" :> reddit)
                          @@ ("ebay" :> [exists |-> TRUE, entries |-> NumberedFiles("ebay", ebay)])
                          @@ ("poshmark" :> [exists |-> TRUE, entries |-> NumberedFiles("poshmark", poshmark)])
                          @@ ("facebook" :> [exists |-> TRUE, entries |-> FacebookFolder])
    /\ reference_embeddings \in SessionRefs
    /\ \E fault \in SessionFaults :
         orchestrator = [phase |-> "scraped",
                         matcher |-> fault # "no matcher",
                         matches_writable |-> fault # "matches unwritable",
                         match_threshold |-> MatchThreshold,
                         all_image_folders |-> <<"reddit", "ebay", "poshmark", "facebook">>,
                         match_results |-> <<>>]
    /\ session_summary = NoSummary
    /\ call = NoCall
    /\ ret = PyNone
    /\ json_file = NoFile
    /\ loaded = NotLoaded
    /\ reference_folder = <<>>
    /\ cache_file = NoCache
    /\ matcher_ready = TRUE
    /\ NoScraping
    /\ NoRuns
    /\ NoDownloads
    /\ NoApp

\* if orchestrator.matcher: orchestrator.run_matching_analysis()
RunMatchingAnalysis ==
    /\ orchestrator.phase = "scraped"
    /\ orchestrator' =
          [orchestrator EXCEPT
              !.phase = "matched",
              !.match_results =
                  IF ~orchestrator.matcher THEN @
                  ELSE AnalysisLoop(reference_embeddings, scraped_images,
                                    orchestrator.all_image_folders, 1,
                                    orchestrator.match_threshold,
                                    orchestrator.matches_writable, @)]
    /\ UNCHANGED <<reference_embeddings, call, ret, jsonVars, cacheVars,
                   scraped_images, session_summary, runVars, webVars, downloadVars, appVars>>

\* match.get("image_path")
ImagePathOf(match) == IF "image_path" \in DOMAIN match THEN match.image_path ELSE PyNone

\* os.path.exists of a path into the session's scraped_images folders
PathExists(disk, path) ==
    /\ path.dir \in DOMAIN disk
    /\ disk[path.dir].exists
    /\ \E i \in 1..Len(disk[path.dir].entries) : FileName(disk[path.dir].entries[i]) = path.name

\* the body of the export loop for one record of top_matches
ExportMatch(match, disk) ==
    LET image_path == ImagePathOf(match)
    IN  IF image_path # PyNone /\ PathExists(disk, image_path.v)
        THEN [copied |-> {basename(image_path.v)},
              match |-> ("filename" :> PyStr(basename(image_path.v)))
                        @@ ("image_path" :> PyStr([dir |-> "matched", name |-> basename(image_path.v)]))
                        @@ match]
        ELSE [copied |-> {}, match |-> match]

\* for match in session_summary["top_matches"]: the records as they are
\* left, and the files copied into web/static/matched
RECURSIVE ExportLoop(_, _, _, _)
ExportLoop(top_matches, i, disk, exported) ==
    IF i > Len(top_matches) THEN exported
    ELSE LET e == ExportMatch(top_matches[i], disk)
         IN  ExportLoop(top_matches, i + 1, disk,
                 [top_matches |-> Append(exported.top_matches, e.match),
                  copied |-> exported.copied \cup e.copied])

\* orchestrator.generate_session_summary()
GenerateSessionSummary ==
    /\ orchestrator.phase = "matched"
    /\ LET summary == generate_session_summary(orchestrator.match_results)
           exported == ExportLoop(summary.top_matches, 1, scraped_images,
                                  [top_matches |-> <<>>, copied |-> {}])
       IN  /\ session_summary' = [summary EXCEPT !.top_matches = exported.top_matches]
           /\ matched_dir' = matched_dir \cup exported.copied
    /\ orchestrator' =
          [orchestrator EXCEPT
              !.phase = "summarised",
              !.match_results = [i \in 1..Len(@) |-> Tagged(@[i])]]
    /\ UNCHANGED <<reference_embeddings, call, ret, jsonVars, cacheVars, scraped_images,
                   runVars, webVars, downloadVars, intermediate_files, sessions,
                   conversation_history, chat_log>>

NextSession == RunMatchingAnalysis \/ GenerateSessionSummary

SpecSession == InitSession /\ [][NextSession]_vars

\* the likely matches of all platforms, as match_results holds them
RECURSIVE AllLikely(_, _)
AllLikely(match_results, i) ==
    IF i > Len(match_results) THEN <<>>
    ELSE (IF "match_details" \in DOMAIN match_results[i].value
          THEN match_results[i].value.match_details ELSE <<>>)
         \o AllLikely(match_results, i + 1)

Top == session_summary.top_matches

InTop(m) == \E i \in 1..Len(Top) : Top[i] = m

\* C10: top_matches holds at most 10 records, all flagged is_likely_match, in
\* non-increasing best_score order, no two with the same platform and
\* test_image, and no likely match left out scores higher than one included.
Thm_C10 ==
    session_summary # NoSummary =>
        /\ Len(Top) <= 10
        /\ \A i \in 1..Len(Top) : Top[i].is_likely_match = PyBool(TRUE)
        /\ \A i, j \in 1..Len(Top) : i < j => Top[i].best_score.v >= Top[j].best_score.v
        /\ \A i, j \in 1..Len(Top) :
               i # j => ~(Top[i].platform = Top[j].platform
                          /\ Top[i].test_image = Top[j].test_image)
        /\ LET all == AllLikely(orchestrator.match_results, 1)
           IN  \A k \in 1..Len(all) :
                   InTop(all[k]) \/ \A i \in 1..Len(Top) : Top[i].best_score.v >= all[k].best_score.v

\* more than ten likely matches, of different scores, cut down to ten
Wit_C10 ==
    /\ session_summary # NoSummary
    /\ Len(Top) = 10
    /\ Len(AllLikely(orchestrator.match_results, 1)) > 10
    /\ Top[1].best_score.v > Top[10].best_score.v
    /\ \E k \in 1..Len(AllLikely(orchestrator.match_results, 1)) :
           ~InTop(AllLikely(orchestrator.match_results, 1)[k])

(***************************************************************************)
(* The configuration of a run and its scraping phase: WatchFinderConfig,   *)
(* the overrides main applies from the command line, and run_all_scrapers  *)
(* with the five run_*_scraper steps (run_all.py).                         *)
(*                                                                         *)
(* A scraper is the outside world: what it does (raise, leave no result    *)
(* file, leave one that cannot be read, leave an empty or a non-empty      *)
(* list) is an input of the step that calls it.                            *)
(***************************************************************************)
TicksPerSecond == 2     \* clock ticks in one second
MaxResultsArg == 21     \* largest --max-results tried

\* strftime("%Y%m%d_%H%M%S"): the time cut down to whole seconds
SessionId(t) == t \div TicksPerSecond

SessionFolder(id) == <<"sessions/session_", id>>

\* WatchFinderConfig(), constructed at time t
WatchFinderConfig(t) ==
    [session_id |-> SessionId(t),
     session_folder |-> SessionFolder(SessionId(t)),
     match_threshold |-> MatchThreshold,
     ebay_max_results |-> 20,
     craigslist_max_results |-> 15,
     reddit_max_results |-> 10,
     poshmark_max_results |-> 15,
     facebook_max_results |-> 8,
     enabled_platforms |-> [ebay |-> TRUE, craigslist |-> TRUE, reddit |-> FALSE,
                            poshmark |-> TRUE, facebook |-> FALSE]]

craigslist_cities == <<"losangeles", "newyork", "chicago">>
\* f"craigslist_{city}_results.json" and f"{...}/craigslist_{city}"
CraigslistResultFile ==
    [losangeles |-> "craigslist_losangeles_results.json",
     newyork |-> "craigslist_newyork_results.json",
     chicago |-> "craigslist_chicago_results.json"]
CraigslistFolder ==
    [losangeles |-> "craigslist_losangeles",
     newyork |-> "craigslist_newyork",
     chicago |-> "craigslist_chicago"]
reddit_subreddits == <<"Watches", "WatchExchange", "rolex", "PatekPhilippe">>

\* the platforms, in the order run_all_scrapers takes them
PlatformOrder == <<"reddit", "ebay", "craigslist", "poshmark", "facebook">>

\* the platforms the configuration knows
PlatformNames == DOMAIN WatchFinderConfig(0).enabled_platforms

Max(a, b) == IF a > b THEN a ELSE b

\* the default of --max-results
DefaultMaxResults == 20

\* what argparse hands to main
CliArgs ==
    [disable_ebay : BOOLEAN, disable_craigslist : BOOLEAN, disable_poshmark : BOOLEAN,
     enable_reddit : BOOLEAN, enable_facebook : BOOLEAN, max_results : 1..MaxResultsArg]

\* main: the platform flags, applied in the order of the code
ApplyPlatformFlags(enabled, args) ==
    LET forced == [enabled EXCEPT !.reddit = TRUE, !.facebook = TRUE]
        e1 == IF args.disable_ebay THEN [forced EXCEPT !.ebay = FALSE] ELSE forced
        e2 == IF args.disable_craigslist THEN [e1 EXCEPT !.craigslist = FALSE] ELSE e1
        e3 == IF args.enable_reddit THEN [e2 EXCEPT !.reddit = TRUE] ELSE e2
        e4 == IF args.disable_poshmark THEN [e3 EXCEPT !.poshmark = FALSE] ELSE e3
    IN  IF args.enable_facebook THEN [e4 EXCEPT !.facebook = TRUE] ELSE e4

\* main: the result caps derived from --max-results
ApplyMaxResults(c, n) ==
    IF n # DefaultMaxResults
    THEN [c EXCEPT !.ebay_max_results = n,
                   !.craigslist_max_results = Max(10, n - 5),
                   !.reddit_max_results = Max(5, n - 10),
                   !.poshmark_max_results = n,
                   !.facebook_max_results = Max(5, n - 12)]
    ELSE c

\* main: the configuration handed to the orchestrator
main_config(c, args) ==
    ApplyMaxResults([c EXCEPT !.enabled_platforms = ApplyPlatformFlags(@, args)],
                    args.max_results)

\* what a scraper that returns the path of a result file can do
ScraperOutcomes == {"raises", "no file", "unreadable", "empty", "results"}
\* what scrape_craigslist, which returns the list itself, can do
CraigslistOutcomes == {"raises", "empty", "results"}
\* the Facebook cookies file
CookieStates == {"missing", "unreadable", "loaded"}

\* the orchestrator as run_all_scrapers starts
StartScraping ==
    [pc |-> "reddit",
     all_scraped_files |-> <<>>,
     all_image_folders |-> <<>>,
     steps |-> <<>>,        \* the run_*_scraper calls run_all_scrapers has made
     calls |-> <<>>,        \* the scrapers called
     total_platforms |-> 0,
     successful_platforms |-> 0]

\* a call of a scraper, with the folder, city or subreddit it is given
ScraperCall(scraper, target) == [scraper |-> scraper, target |-> target]

\* an outcome of a run_*_scraper call: the orchestrator after it, and what
\* it returned unless it raised
Returns(o, value) == [o |-> o, raised |-> FALSE, value |-> value]
Raises(o) == [o |-> o, raised |-> TRUE, value |-> PyNone]

\* _save_results_to_session; nonempty: results is a non-empty list
save_results_to_session(o, nonempty, session_result_filename, writable) ==
    IF ~nonempty THEN Returns(o, PyNone)
    ELSE IF writable
         THEN Returns([o EXCEPT !.all_scraped_files = Append(@, session_result_filename)],
                      PyStr(session_result_filename))
         ELSE Returns(o, PyNone)

\* the try block shared by run_ebay_scraper, run_poshmark_scraper and
\* run_facebook_scraper: scrape, read the result file, save it to the session
ScrapeToSession(o, scraper, folder, filename, outcome, writable) ==
    LET called == [o EXCEPT !.calls = Append(@, ScraperCall(scraper, folder))]
    IN  IF outcome \in {"raises", "no file", "unreadable"} THEN Returns(called, PyNone)
        ELSE LET saved == save_results_to_session(called, outcome = "results", filename, writable)
             IN  Returns([saved.o EXCEPT !.all_image_folders = Append(@, folder)], saved.value)

run_ebay_scraper(o, enabled, outcome, writable) ==
    IF ~enabled.ebay THEN Returns(o, PyNone)
    ELSE ScrapeToSession(o, "scrape_ebay", "ebay", "ebay_results.json", outcome, writable)

run_poshmark_scraper(o, enabled, outcome, writable) ==
    IF ~enabled.poshmark THEN Returns(o, PyNone)
    ELSE ScrapeToSession(o, "scrape_poshmark", "poshmark", "poshmark_results.json",
                         outcome, writable)

run_facebook_scraper(o, enabled, cookies, outcome, writable) ==
    IF ~enabled.facebook THEN Returns(o, PyNone)
    ELSE IF cookies # "loaded" THEN Returns(o, PyNone)
    ELSE ScrapeToSession(o, "scrape_facebook_marketplace_with_cookies", "facebook",
                         "facebook_results.json", outcome, writable)

\* run_craigslist_scraper: the loop over the cities
RECURSIVE CraigslistLoop(_, _, _, _, _)
CraigslistLoop(o, i, outcomes, writable, result_files) ==
    IF i > Len(craigslist_cities) THEN Returns(o, PyList(result_files))
    ELSE LET city == craigslist_cities[i]
             called == [o EXCEPT !.calls = Append(@, ScraperCall("scrape_craigslist", city))]
         IN  IF outcomes[i] # "results"
             THEN CraigslistLoop(called, i + 1, outcomes, writable, result_files)
             ELSE LET saved == save_results_to_session(called, TRUE,
                                                       CraigslistResultFile[city],
                                                       writable)
                  IN  IF saved.value = PyNone
                      THEN CraigslistLoop(saved.o, i + 1, outcomes, writable, result_files)
                      ELSE CraigslistLoop(
                               [saved.o EXCEPT !.all_image_folders =
                                                   Append(@, CraigslistFolder[city])],
                               i + 1, outcomes, writable,
                               Append(result_files, saved.value))

run_craigslist_scraper(o, enabled, outcomes, writable) ==
    IF ~enabled.craigslist THEN Returns(o, PyList(<<>>))
    ELSE CraigslistLoop(o, 1, outcomes, writable, <<>>)

\* run_reddit_scraper: the loop over the subreddits; it yields the
\* orchestrator and whether all_reddit_results holds anything
RECURSIVE RedditLoop(_, _, _, _)
RedditLoop(o, i, outcomes, any) ==
    IF i > Len(reddit_subreddits) THEN [o |-> o, any |-> any]
    ELSE RedditLoop([o EXCEPT !.calls = Append(@, ScraperCall("scrape_reddit_subreddit",
                                                               reddit_subreddits[i]))],
                    i + 1, outcomes, any \/ outcomes[i] = "results")

\* folder_ok: os.makedirs of the reddit folder, made before any try block
run_reddit_scraper(o, enabled, folder_ok, outcomes, writable) ==
    IF ~enabled.reddit THEN Returns(o, PyList(<<>>))
    ELSE IF ~folder_ok THEN Raises(o)
    ELSE LET looped == RedditLoop(o, 1, outcomes, FALSE)
             saved == save_results_to_session(looped.o, looped.any, "reddit_results.json",
                                              writable)
         IN  IF saved.value = PyNone THEN Returns(saved.o, PyList(<<>>))
             ELSE Returns([saved.o EXCEPT !.all_image_folders = Append(@, "reddit")],
                          PyList(<<saved.value>>))

\* the number of platforms enabled in the configuration
RECURSIVE CountEnabled(_, _)
CountEnabled(enabled, names) ==
    IF names = {} THEN 0
    ELSE LET p == CHOOSE q \in names : TRUE
         IN  (IF enabled[p] THEN 1 ELSE 0) + CountEnabled(enabled, names \ {p})

\* what run_all_scrapers does with the outcome of one of its steps: an
\* exception that leaves the step leaves run_all_scrapers too
AfterStep(r, next) ==
    IF r.raised THEN [r.o EXCEPT !.pc = "raised"] ELSE [r.o EXCEPT !.pc = next]

Entered(o, platform) == [o EXCEPT !.steps = Append(@, platform)]

InitScrape ==
    /\ config = NoConfig
    /\ scrape = NotScraping
    /\ call = NoCall
    /\ ret = PyNone
    /\ reference_embeddings = <<>>
    /\ json_file = NoFile
    /\ loaded = NotLoaded
    /\ MatcherConstructed
    /\ NoSession
    /\ NoRuns
    /\ NoDownloads
    /\ NoApp

\* main, up to the call of run_all_scrapers; it exits when the reference
\* folder is missing or holds no image
Main ==
    /\ call = NoCall
    /\ \E args \in CliArgs, reference_ok \in BOOLEAN :
         /\ call' = [op |-> "main", args |-> args]
         /\ config' = main_config(WatchFinderConfig(clock), args)
         /\ scrape' = IF reference_ok THEN StartScraping ELSE [pc |-> "exit"]
    /\ UNCHANGED <<reference_embeddings, ret, jsonVars, cacheVars, sessionVars,
                   webVars, downloadVars, appVars>>

RedditStep ==
    /\ scrape.pc = "reddit"
    /\ IF ~config.enabled_platforms.reddit
       THEN scrape' = [scrape EXCEPT !.pc = "ebay"]
       ELSE \E folder_ok \in BOOLEAN, writable \in BOOLEAN,
               outcomes \in [1..Len(reddit_subreddits) -> ScraperOutcomes] :
              scrape' = AfterStep(run_reddit_scraper(Entered(scrape, "reddit"),
                                                     config.enabled_platforms,
                                                     folder_ok, outcomes, writable),
                                  "ebay")
    /\ UNCHANGED <<reference_embeddings, call, ret, jsonVars, cacheVars, sessionVars,
                   config, webVars, downloadVars, appVars>>

EbayStep ==
    /\ scrape.pc = "ebay"
    /\ IF ~config.enabled_platforms.ebay
       THEN scrape' = [scrape EXCEPT !.pc = "craigslist"]
       ELSE \E outcome \in ScraperOutcomes, writable \in BOOLEAN :
              scrape' = AfterStep(run_ebay_scraper(Entered(scrape, "ebay"),
                                                   config.enabled_platforms,
                                                   outcome, writable),
                                  "craigslist")
    /\ UNCHANGED <<reference_embeddings, call, ret, jsonVars, cacheVars, sessionVars,
                   config, webVars, downloadVars, appVars>>

CraigslistStep ==
    /\ scrape.pc = "craigslist"
    /\ IF ~config.enabled_platforms.craigslist
       THEN scrape' = [scrape EXCEPT !.pc = "poshmark"]
       ELSE \E writable \in BOOLEAN,
               outcomes \in [1..Len(craigslist_cities) -> CraigslistOutcomes] :
              scrape' = AfterStep(run_craigslist_scraper(Entered(scrape, "craigslist"),
                                                         config.enabled_platforms,
                                                         outcomes, writable),
                                  "poshmark")
    /\ UNCHANGED <<reference_embeddings, call, ret, jsonVars, cacheVars, sessionVars,
                   config, webVars, downloadVars, appVars>>

PoshmarkStep ==
    /\ scrape.pc = "poshmark"
    /\ IF ~config.enabled_platforms.poshmark
       THEN scrape' = [scrape EXCEPT !.pc = "facebook"]
       ELSE \E outcome \in ScraperOutcomes, writable \in BOOLEAN :
              scrape' = AfterStep(run_poshmark_scraper(Entered(scrape, "poshmark"),
                                                       config.enabled_platforms,
                                                       outcome, writable),
                                  "facebook")
    /\ UNCHANGED <<reference_embeddings, call, ret, jsonVars, cacheVars, sessionVars,
                   config, webVars, downloadVars, appVars>>

FacebookStep ==
    /\ scrape.pc = "facebook"
    /\ IF ~config.enabled_platforms.facebook
       THEN scrape' = [scrape EXCEPT !.pc = "summary"]
       ELSE \E cookies \in CookieStates, outcome \in ScraperOutcomes, writable \in BOOLEAN :
              scrape' = AfterStep(run_facebook_scraper(Entered(scrape, "facebook"),
                                                       config.enabled_platforms,
                                                       cookies, outcome, writable),
                                  "summary")
    /\ UNCHANGED <<reference_embeddings, call, ret, jsonVars, cacheVars, sessionVars,
                   config, webVars, downloadVars, appVars>>

\* the end of run_all_scrapers: the two counts it logs
ScrapingSummary ==
    /\ scrape.pc = "summary"
    /\ scrape' = [scrape EXCEPT
                     !.pc = "done",
                     !.total_platforms = CountEnabled(config.enabled_platforms, PlatformNames),
                     !.successful_platforms = Len(scrape.all_scraped_files)]
    /\ UNCHANGED <<reference_embeddings, call, ret, jsonVars, cacheVars, sessionVars,
                   config, webVars, downloadVars, appVars>>

NextScrape ==
    \/ Main
    \/ RedditStep
    \/ EbayStep
    \/ CraigslistStep
    \/ PoshmarkStep
    \/ FacebookStep
    \/ ScrapingSummary

SpecScrape == InitScrape /\ [][NextScrape]_vars

\* x is an element of the sequence s
Mem(x, s) == \E i \in 1..Len(s) : s[i] = x

\* main has called run_all_scrapers
Scraping == scrape # NotScraping /\ scrape.pc # "exit"

\* run_all_scrapers is over: it returned, or an exception left it
ScrapingOver == Scraping /\ scrape.pc \in {"done", "raised"}

\* the enabled platforms, in the order of run_all_scrapers
EnabledInOrder == SelectSeq(PlatformOrder, LAMBDA p : config.enabled_platforms[p])

\* C11: no failure of a scraping step leaves run_all_scrapers, and every
\* enabled platform is attempted whatever happened to the ones before it.
Cex_C11 ==
    Scraping =>
        /\ scrape.pc # "raised"
        /\ ScrapingOver =>
               \A i \in 1..Len(PlatformOrder) :
                   config.enabled_platforms[PlatformOrder[i]]
                       => Mem(PlatformOrder[i], scrape.steps)

\* the platform a session result file belongs to
ResultFilePlatform ==
    [f \in {"reddit_results.json", "ebay_results.json", "poshmark_results.json",
            "facebook_results.json"}
           \cup {CraigslistResultFile[c] : c \in DOMAIN CraigslistResultFile} |->
        CASE f = "reddit_results.json" -> "reddit"
          [] f = "ebay_results.json" -> "ebay"
          [] f = "poshmark_results.json" -> "poshmark"
          [] f = "facebook_results.json" -> "facebook"
          [] OTHER -> "craigslist"]

\* the platforms that left a non-empty result file in the session
ProducedResults ==
    {ResultFilePlatform[scrape.all_scraped_files[i]] :
        i \in 1..Len(scrape.all_scraped_files)}

\* C12: the number of successful platforms run_all_scrapers reports is the
\* number of enabled platforms that produced a non-empty result file, and is
\* at most the number of enabled platforms.
Cex_C12 ==
    (Scraping /\ scrape.pc = "done") =>
        /\ scrape.successful_platforms = Cardinality(ProducedResults)
        /\ scrape.successful_platforms <= scrape.total_platforms

\* C14: in a command-line run that scraped, eBay, Craigslist and Poshmark
\* are scraped unless disabled by their flag, and Reddit and Facebook are
\* scraped only when enabled by theirs.
Cex_C14 ==
    (Scraping /\ scrape.pc = "done") =>
        /\ Mem("ebay", scrape.steps) <=> ~call.args.disable_ebay
        /\ Mem("craigslist", scrape.steps) <=> ~call.args.disable_craigslist
        /\ Mem("poshmark", scrape.steps) <=> ~call.args.disable_poshmark
        /\ Mem("reddit", scrape.steps) => call.args.enable_reddit
        /\ Mem("facebook", scrape.steps) => call.args.enable_facebook

\* C15: whatever positive --max-results is given, no platform's result cap
\* exceeds it.
Cex_C15 ==
    config # NoConfig =>
        /\ config.ebay_max_results <= call.args.max_results
        /\ config.craigslist_max_results <= call.args.max_results
        /\ config.reddit_max_results <= call.args.max_results
        /\ config.poshmark_max_results <= call.args.max_results
        /\ config.facebook_max_results <= call.args.max_results

\* s is the beginning of t
IsPrefix(s, t) == Len(s) <= Len(t) /\ \A i \in 1..Len(s) : s[i] = t[i]

\* the platform a scraper belongs to
ScraperPlatform ==
    [scrape_reddit_subreddit |-> "reddit",
     scrape_ebay |-> "ebay",
     scrape_craigslist |-> "craigslist",
     scrape_poshmark |-> "poshmark",
     scrape_facebook_marketplace_with_cookies |-> "facebook"]

\* C19: the steps run_all_scrapers has run are the enabled platforms in the
\* fixed order, one after another; when it is over every enabled platform
\* has been run exactly once; no scraper of a disabled platform is called.
Cex_C19 ==
    Scraping =>
        /\ IsPrefix(scrape.steps, EnabledInOrder)
        /\ ScrapingOver => scrape.steps = EnabledInOrder
        /\ \A i \in 1..Len(scrape.calls) :
               config.enabled_platforms[ScraperPlatform[scrape.calls[i].scraper]]

(***************************************************************************)
(* End-to-end runs and the web application (web/app.py).  A run is started *)
(* by main, by /start_search, by a POST to /simple or by a chat message;   *)
(* each constructs a WatchFinderConfig and an orchestrator and then works  *)
(* through its own steps, in a thread of its own in the web application.   *)
(* The runs share the sessions/ directory, web/latest_session.txt and the  *)
(* module-level matches list, and their steps interleave.                  *)
(***************************************************************************)
MaxRuns == 2        \* most runs started
MaxElapsed == 2     \* most clock ticks between two starts
MaxLikely == 1      \* most likely matches a run finds

EntryPoints == {"main", "start_search", "simple_interface", "handle_chat_message"}

\* the session ids the clock can produce
SessionIds == 0..SessionId(MaxRuns * MaxElapsed)

SessionSubfolders == {"scraped_images", "results", "matches", "logs"}

NoFolder == [subfolders |-> {}, summary |-> NoSummary]

\* web/latest_session.txt holding a session id
LatestSession(session_id) == [k |-> "present", session_id |-> session_id]

\* WatchFinderOrchestrator._setup_session_folders: os.makedirs(exist_ok=True)
\* keeps what a folder of that name already holds
setup_session_folders(folders, session_id) ==
    [folders EXCEPT ![session_id].subfolders = @ \cup SessionSubfolders]

\* the configuration the three web entry points build
WebConfig(t, threshold) ==
    [WatchFinderConfig(t) EXCEPT !.match_threshold = threshold,
                                 !.enabled_platforms.facebook = TRUE,
                                 !.enabled_platforms.reddit = TRUE]

\* a run as its orchestrator is constructed
NewRun(entry, c) ==
    [entry |-> entry,
     session_id |-> c.session_id,
     session_folder |-> c.session_folder,
     pc |-> "started",
     likely |-> <<>>,        \* the likely matches in orchestrator.match_results
     summary |-> "none",     \* session_summary.json: "none", "written" or "failed"
     appended |-> 0,         \* /simple: how many matches the loop has appended
     rendered |-> <<>>]      \* /simple: the matches given to the template

\* the likely matches run r finds: n of them, each of its own session
LikelyMatches(r, n) == [k \in 1..n |-> [run |-> r, image |-> k]]

InitWeb ==
    /\ clock = 0
    /\ runs = <<>>
    /\ session_folders = [id \in SessionIds |-> NoFolder]
    /\ latest_session_file = NoLatest
    /\ matches = <<>>
    /\ call = NoCall
    /\ ret = PyNone
    /\ reference_embeddings = <<>>
    /\ json_file = NoFile
    /\ loaded = NotLoaded
    /\ MatcherConstructed
    /\ NoSession
    /\ NoScraping
    /\ NoDownloads
    /\ NoApp

\* the part every entry point shares: WatchFinderConfig() at the time of the
\* call, then WatchFinderOrchestrator(config, query)
StartRun(entry, elapsed) ==
    /\ clock' = clock + elapsed
    /\ LET c == IF entry = "main" THEN WatchFinderConfig(clock')
                ELSE WebConfig(clock', DefaultThreshold)
       IN  /\ runs' = Append(runs, NewRun(entry, c))
           /\ session_folders' = setup_session_folders(session_folders, c.session_id)

\* python run_all.py ...: main constructs the configuration and the orchestrator
MainRun ==
    /\ Len(runs) < MaxRuns
    /\ \E elapsed \in 0..MaxElapsed : StartRun("main", elapsed)
    /\ UNCHANGED <<reference_embeddings, call, ret, jsonVars, cacheVars, sessionVars,
                   runVars, latest_session_file, matches, downloadVars, appVars>>

\* POST /start_search: 400 without a query or without reference images;
\* otherwise the workflow thread is started and the session id is answered
start_search ==
    /\ Len(runs) < MaxRuns
    /\ \E elapsed \in 0..MaxElapsed, accepted \in BOOLEAN :
         /\ call' = [op |-> "start_search", started |-> Len(runs)]
         /\ IF accepted
            THEN /\ StartRun("start_search", elapsed)
                 /\ ret' = [status |-> 200, session_id |-> SessionId(clock')]
            ELSE /\ ret' = [status |-> 400]
                 /\ UNCHANGED <<clock, runs, session_folders>>
    /\ UNCHANGED <<reference_embeddings, jsonVars, cacheVars, sessionVars,
                   runVars, latest_session_file, matches, downloadVars, appVars>>

\* POST /simple with a query: the request's thread runs the whole search
simple_interface ==
    /\ Len(runs) < MaxRuns
    /\ \E elapsed \in 0..MaxElapsed : StartRun("simple_interface", elapsed)
    /\ UNCHANGED <<reference_embeddings, call, ret, jsonVars, cacheVars, sessionVars,
                   runVars, latest_session_file, matches, downloadVars, appVars>>

\* a chat message that names a watch, with reference images uploaded
handle_chat_message ==
    /\ Len(runs) < MaxRuns
    /\ \E elapsed \in 0..MaxElapsed : StartRun("handle_chat_message", elapsed)
    /\ UNCHANGED <<reference_embeddings, call, ret, jsonVars, cacheVars, sessionVars,
                   runVars, latest_session_file, matches, downloadVars, appVars>>

\* orchestrator.run_all_scrapers() and orchestrator.run_matching_analysis();
\* an exception ends the run in the handler of its entry point
ScrapeAndMatch ==
  \E r \in 1..Len(runs) :
    /\ runs[r].pc = "started"
    /\ \E finished \in BOOLEAN, n \in 0..MaxLikely :
         runs' = [runs EXCEPT ![r].pc = IF finished THEN "matched" ELSE "failed",
                              ![r].likely = IF finished THEN LikelyMatches(r, n) ELSE <<>>]
    /\ UNCHANGED <<reference_embeddings, call, ret, jsonVars, cacheVars, sessionVars,
                   runVars, clock, session_folders, latest_session_file, matches,
                   downloadVars, appVars>>

\* orchestrator.generate_session_summary(), which main, run_workflow and
\* simple_interface call: it writes results/session_summary.json of the
\* session folder, or logs that it could not
GenerateSummary ==
  \E r \in 1..Len(runs) :
    /\ runs[r].pc = "matched"
    /\ runs[r].entry \in {"main", "start_search", "simple_interface"}
    /\ \E writable \in BOOLEAN :
         /\ session_folders' =
                IF writable
                THEN [session_folders EXCEPT
                         ![runs[r].session_id].summary =
                             [session_id |-> runs[r].session_id, run |-> r]]
                ELSE session_folders
         /\ runs' = [runs EXCEPT
                        ![r].summary = IF writable THEN "written" ELSE "failed",
                        ![r].pc = IF runs[r].entry = "main" THEN "done" ELSE "summarised"]
    /\ UNCHANGED <<reference_embeddings, call, ret, jsonVars, cacheVars, sessionVars,
                   runVars, clock, latest_session_file, matches, downloadVars, appVars>>

\* run_workflow: the session id is written to web/latest_session.txt
WriteLatestSession ==
  \E r \in 1..Len(runs) :
    /\ runs[r].pc = "summarised"
    /\ runs[r].entry = "start_search"
    /\ latest_session_file' = LatestSession(runs[r].session_id)
    /\ runs' = [runs EXCEPT ![r].pc = "done"]
    /\ UNCHANGED <<reference_embeddings, call, ret, jsonVars, cacheVars, sessionVars,
                   runVars, clock, session_folders, matches, downloadVars, appVars>>

\* run_search of the chat: the matches are emitted on the socket
EmitSearchResults ==
  \E r \in 1..Len(runs) :
    /\ runs[r].pc = "matched"
    /\ runs[r].entry = "handle_chat_message"
    /\ runs' = [runs EXCEPT ![r].pc = "done"]
    /\ UNCHANGED <<reference_embeddings, call, ret, jsonVars, cacheVars, sessionVars,
                   runVars, clock, session_folders, latest_session_file, matches,
                   downloadVars, appVars>>

\* simple_interface: matches = [] rebinds the module-level name
ResetMatches ==
  \E r \in 1..Len(runs) :
    /\ runs[r].pc = "summarised"
    /\ runs[r].entry = "simple_interface"
    /\ matches' = <<>>
    /\ runs' = [runs EXCEPT ![r].pc = "extracting", ![r].appended = 0]
    /\ UNCHANGED <<reference_embeddings, call, ret, jsonVars, cacheVars, sessionVars,
                   runVars, clock, session_folders, latest_session_file, downloadVars, appVars>>

\* simple_interface: matches.append(...) on whatever list the module-level
\* name is bound to at that moment
AppendMatch ==
  \E r \in 1..Len(runs) :
    /\ runs[r].pc = "extracting"
    /\ runs[r].appended < Len(runs[r].likely)
    /\ matches' = Append(matches, runs[r].likely[runs[r].appended + 1])
    /\ runs' = [runs EXCEPT ![r].appended = @ + 1]
    /\ UNCHANGED <<reference_embeddings, call, ret, jsonVars, cacheVars, sessionVars,
                   runVars, clock, session_folders, latest_session_file, downloadVars, appVars>>

\* simple_interface: render_template_string(..., matches=matches, ...)
RenderMatches ==
  \E r \in 1..Len(runs) :
    /\ runs[r].pc = "extracting"
    /\ runs[r].appended = Len(runs[r].likely)
    /\ runs' = [runs EXCEPT ![r].pc = "done", ![r].rendered = matches]
    /\ UNCHANGED <<reference_embeddings, call, ret, jsonVars, cacheVars, sessionVars,
                   runVars, clock, session_folders, latest_session_file, matches,
                   downloadVars, appVars>>

\* GET /results/latest
get_latest_results ==
    /\ call' = [op |-> "get_latest_results", started |-> Len(runs)]
    /\ ret' = IF latest_session_file = NoLatest THEN [status |-> 404]
              ELSE IF session_folders[latest_session_file.session_id].summary = NoSummary
                   THEN [status |-> 404]
                   ELSE [status |-> 200,
                         summary |-> session_folders[latest_session_file.session_id].summary]
    /\ UNCHANGED <<reference_embeddings, jsonVars, cacheVars, sessionVars,
                   runVars, webVars, downloadVars, appVars>>

NextWeb ==
    \/ MainRun
    \/ start_search
    \/ simple_interface
    \/ handle_chat_message
    \/ get_latest_results
    \/ ScrapeAndMatch
    \/ GenerateSummary
    \/ WriteLatestSession
    \/ EmitSearchResults
    \/ ResetMatches
    \/ AppendMatch
    \/ RenderMatches

SpecWeb == InitWeb /\ [][NextWeb]_vars

\* C13: any two sessions have different session ids and different session
\* folders.
Cex_C13 ==
    \A i, j \in 1..Len(runs) :
        i # j => /\ runs[i].session_id # runs[j].session_id
                 /\ runs[i].session_folder # runs[j].session_folder

\* C16: a /results/latest response with status 200 carries the summary of
\* no session older than any session /start_search had answered with before
\* the request was made.
Cex_C16 ==
    (call.op = "get_latest_results" /\ ret.status = 200) =>
        \A k \in 1..call.started :
            runs[k].entry = "start_search"
                => ret.summary.session_id >= runs[k].session_id

\* run r went through its scraping and its matching and has ended
Finished(r) == runs[r].pc = "done"

\* C17: a run that finished, whichever entry point started it, has left the
\* four subfolders and session_summary.json in its session folder (unless
\* writing the summary failed and was logged).
Cex_C17 ==
    \A r \in 1..Len(runs) :
        (Finished(r) /\ runs[r].summary # "failed") =>
            /\ session_folders[runs[r].session_id].subfolders = SessionSubfolders
            /\ session_folders[runs[r].session_id].summary # NoSummary

\* C18: the matches rendered in the response to a /simple POST are the
\* likely matches of that request's own orchestrator.
Cex_C18 ==
    \A r \in 1..Len(runs) :
        (runs[r].entry = "simple_interface" /\ Finished(r)) =>
            runs[r].rendered = runs[r].likely

(***************************************************************************)
(* Image downloads: the listing loop of scrape_ebay and                    *)
(* download_reddit_image (scrapers/).  What a request comes to is an       *)
(* input; the requests made are recorded in the order they are made.       *)
(***************************************************************************)
MaxListings == 2    \* most listings on an eBay result page

\* the ways a request for an image fails
DownloadFailures == {"request error", "html page", "too small", "io error"}
DownloadOutcomes == DownloadFailures \cup {"saved"}

ARequest(url, headers, outcome) == [url |-> url, headers |-> headers, outcome |-> outcome]

\* scrape_ebay: the loop over the listings of the page; outcomes[i] is what
\* the one requests.get for listing i comes to
RECURSIVE EbayLoop(_, _, _, _)
EbayLoop(outcomes, i, requests, results) ==
    IF i > Len(outcomes) THEN [requests |-> requests, results |-> results]
    ELSE EbayLoop(outcomes, i + 1,
                  Append(requests, ARequest([listing |-> i], "HEADERS", outcomes[i])),
                  IF outcomes[i] = "saved" THEN Append(results, [listing |-> i])
                  ELSE results)

RECURSIVE SeqsUpTo(_, _)
SeqsUpTo(S, n) ==
    IF n = 0 THEN {<<>>}
    ELSE SeqsUpTo(S, n - 1)
         \cup {Append(s, x) : s \in {t \in SeqsUpTo(S, n - 1) : Len(t) = n - 1}, x \in S}

\* the image URLs a Reddit post can carry
RedditImageUrls ==
    {[host |-> "i.redd.it", ext |-> ".jpg"],
     [host |-> "preview.redd.it", ext |-> ".jpg"],
     [host |-> "imgur.com", ext |-> ""],
     [host |-> "i.imgur.com", ext |-> ""]}

\* get_reddit_image_url
get_reddit_image_url(url) ==
    IF url.host = "i.redd.it" THEN url
    ELSE IF url.host = "preview.redd.it" THEN [url EXCEPT !.host = "i.redd.it"]
    ELSE IF url.host = "imgur.com" THEN [host |-> "i.imgur.com", ext |-> ".jpg"]
    ELSE url

ImgurFormats == <<".jpg", ".jpeg", ".png", ".gif", ".webp">>

\* download_reddit_image: the URLs to try; an imgur URL without an image
\* extension is cut at its first dot and tried with each format
url_attempts(direct_url) ==
    IF direct_url.host \in {"imgur.com", "i.imgur.com"} /\ direct_url.ext = ""
    THEN [k \in 1..Len(ImgurFormats) |-> [host |-> "i", ext |-> ImgurFormats[k]]]
    ELSE <<direct_url>>

header_attempts == <<"IMAGE_HEADERS", "HEADERS", "minimal">>

\* the default of download_reddit_image's max_retries
max_retries == 3

\* download_reddit_image: the three nested loops, flattened; request number
\* i is round (i-1) \div (urls * headers), and the loops end at the first
\* request that saves the image
RECURSIVE RequestLoop_once(_, _, _, _)
RequestLoop_once(urls, outcomes, i, requests) ==
    IF i > max_retries * Len(urls) * Len(header_attempts)
    THEN [requests |-> requests, value |-> FALSE]
    ELSE LET url == urls[(((i - 1) \div Len(header_attempts)) % Len(urls)) + 1]
             headers == header_attempts[((i - 1) % Len(header_attempts)) + 1]
             made == Append(requests, ARequest(url, headers, outcomes[i]))
         IN  IF outcomes[i] = "saved" THEN [requests |-> made, value |-> TRUE]
             ELSE [requests |-> made, value |-> FALSE]

RECURSIVE RequestLoop(_, _, _, _)
RequestLoop(urls, outcomes, i, requests) ==
    IF i > max_retries * Len(urls) * Len(header_attempts)
    THEN [requests |-> requests, value |-> FALSE]
    ELSE LET url == urls[(((i - 1) \div Len(header_attempts)) % Len(urls)) + 1]
             headers == header_attempts[((i - 1) % Len(header_attempts)) + 1]
             made == Append(requests, ARequest(url, headers, outcomes[i]))
         IN  IF outcomes[i] = "saved" THEN [requests |-> made, value |-> TRUE]
             ELSE RequestLoop(urls, outcomes, i + 1, made)

download_reddit_image(img_url, outcomes) ==
    RequestLoop(url_attempts(get_reddit_image_url(img_url)), outcomes, 1, <<>>)

\* the most requests download_reddit_image can make for img_url
RequestBudget(img_url) ==
    max_retries * Len(url_attempts(get_reddit_image_url(img_url))) * Len(header_attempts)

InitDownload ==
    /\ downloads = NoDownload
    /\ call = NoCall
    /\ ret = PyNone
    /\ reference_embeddings = <<>>
    /\ json_file = NoFile
    /\ loaded = NotLoaded
    /\ MatcherConstructed
    /\ NoSession
    /\ NoScraping
    /\ NoRuns
    /\ NoApp

\* scrape_ebay on a result page: one image request for each listing
ScrapeEbay ==
    /\ downloads = NoDownload
    /\ \E outcomes \in SeqsUpTo(DownloadOutcomes, MaxListings) :
         LET looped == EbayLoop(outcomes, 1, <<>>, <<>>)
         IN  downloads' = [scraper |-> "scrape_ebay",
                           images |-> Len(outcomes),
                           requests |-> looped.requests,
                           results |-> looped.results]
    /\ UNCHANGED <<reference_embeddings, call, ret, jsonVars, cacheVars, sessionVars,
                   runVars, webVars, appVars>>

\* scrape_reddit_subreddit downloading one image of a post: the requests fail
\* in one way until request number first_saved, if there is one, saves it
DownloadRedditImage ==
    /\ downloads = NoDownload
    /\ \E img_url \in RedditImageUrls, failure \in DownloadFailures :
         \E first_saved \in 0..RequestBudget(img_url) :
            LET outcomes == [i \in 1..RequestBudget(img_url) |->
                                 IF i = first_saved THEN "saved" ELSE failure]
                done == download_reddit_image(img_url, outcomes)
            IN  downloads' = [scraper |-> "scrape_reddit_subreddit",
                              images |-> 1,
                              img_url |-> img_url,
                              requests |-> done.requests,
                              results |-> IF done.value THEN <<img_url>> ELSE <<>>]
    /\ UNCHANGED <<reference_embeddings, call, ret, jsonVars, cacheVars, sessionVars,
                   runVars, webVars, appVars>>

NextDownload == ScrapeEbay \/ DownloadRedditImage

SpecDownload == InitDownload /\ [][NextDownload]_vars

\* the requests made so far that did not save an image
FailedRequests ==
    {i \in 1..Len(downloads.requests) : downloads.requests[i].outcome # "saved"}

Thm_C21 ==
    BatchReturned =>
        /\ Len(ret.v) = Len(ImageFiles)
        /\ \A i \in 1..Len(ret.v) :
              /\ ret.v[i].v.test_image = PyStr(FileName(ImageFiles[i]))
              /\ ("error" \in DOMAIN ret.v[i].v) <=> ImageFails(ImageFiles[i])
              /\ ("best_score" \in DOMAIN ret.v[i].v) <=> ~ImageFails(ImageFiles[i])

\* a folder whose first image fails and whose second image was matched
Wit_C21 ==
    /\ BatchReturned
    /\ Len(ret.v) = 2
    /\ "error" \in DOMAIN ret.v[1].v
    /\ "best_score" \in DOMAIN ret.v[2].v

(***************************************************************************)
(* Uploads of reference images and the searches that follow them.  Every   *)
(* web entry point constructs a WatchFinderOrchestrator, whose __init__    *)
(* constructs the WatchMatcher of the search (run_all.py:90-95).           *)
(***************************************************************************)
UploadAnswered(status) == call.op = "upload_reference" /\ ret = PyInt(status)

\* C22 as stated: the matcher of the first search after an upload that
\* replaced the reference images holds the embeddings of the images now in
\* the reference folder.
Cex_C22 ==
    [][(UploadAnswered(200) /\ call'.op = "WatchMatcher") =>
           reference_embeddings' = FolderEmbeddings(reference_folder)]_vars

\* C24 as stated: an upload_reference request answered with status 400
\* leaves the reference folder as it was before the request.
Cex_C24 ==
    [][(call'.op = "upload_reference" /\ ret' = PyInt(400)) =>
           reference_folder' = reference_folder]_vars

(***************************************************************************)
(* The export of the matched images by generate_session_summary.           *)
(***************************************************************************)
\* the files of a folder of scraped images, those of its subfolders included
RECURSIVE FilesIn(_)
FilesIn(entries) ==
    IF entries = <<>> THEN {}
    ELSE (IF IsDir(Head(entries)) THEN FilesIn(Head(entries).image.files)
          ELSE {FileName(Head(entries))})
         \cup FilesIn(Tail(entries))

\* the scraped image of a match record is on disk
ImageOnDisk(m) ==
    \E folder \in DOMAIN scraped_images :
        /\ scraped_images[folder].exists
        /\ m.test_image.v \in FilesIn(scraped_images[folder].entries)

\* C28 as stated: every record of top_matches whose scraped image file
\* exists on disk has its image copied into web/static/matched, a filename
\* field, and an image_path of the form matched/<filename>.
Cex_C28 ==
    session_summary # NoSummary =>
        \A i \in 1..Len(Top) :
            ImageOnDisk(Top[i]) =>
                /\ "filename" \in DOMAIN Top[i]
                /\ Top[i].filename.v \in matched_dir
                /\ Top[i].image_path = PyStr([dir |-> "matched", name |-> Top[i].filename.v])

(***************************************************************************)
(* Sessions scraping eBay at the same time (run_ebay_scraper and           *)
(* scrape_ebay).  Each web search runs in a thread of its own; scrape_ebay *)
(* writes its listings to results/ebay_results_<today>.json in the working *)
(* directory, and run_ebay_scraper reads that file, stores the listings in *)
(* the session folder and removes the file.                                *)
(***************************************************************************)
MaxSessions == 2    \* most sessions scraping at the same time

\* datetime.now().strftime("%Y-%m-%d") on the days a scrape can end
Days == {"2025-06-01", "2025-06-02"}

\* output_json = f"results/ebay_results_{today}.json"
output_json(today) == <<"results/ebay_results_", today, ".json">>

\* the listing records of a result list; image_path lies in the session's
\* own ebay folder
EbayResults(session_id, n) ==
    [k \in 1..n |-> [image_path |-> <<SessionFolder(session_id), "scraped_images/ebay", k>>,
                     title |-> "Patek Philippe Nautilus"]]

\* what scrape_ebay comes to: the search page cannot be fetched, the JSON
\* file cannot be written, or the listings are written
EbayOutcomes == {"request error", "io error", "written"}

\* with open(output_json, 'w') ... json.dump(results, f)
WriteFile(files, name, content) == (name :> content) @@ files

\* os.remove(result_file)
RemoveFile(files, name) == [f \in DOMAIN files \ {name} |-> files[f]]

\* os.path.exists
Exists(files, name) == name \in DOMAIN files

ASession(session_id, today) ==
    [session_id |-> session_id, today |-> today, pc |-> "scrape_ebay",
     returned |-> <<>>, result_file |-> PyNone, results |-> <<>>,
     session_result_file |-> <<>>, all_image_folders |-> <<>>, session_log |-> <<>>]

InitEbay ==
    /\ intermediate_files = <<>>
    /\ matched_dir = {}
    /\ conversation_history = <<>>
    /\ chat_log = <<>>
    /\ \E days \in [1..MaxSessions -> Days] :
           sessions = [s \in 1..MaxSessions |-> ASession(s, days[s])]
    /\ call = NoCall
    /\ ret = PyNone
    /\ reference_embeddings = <<>>
    /\ json_file = NoFile
    /\ loaded = NotLoaded
    /\ MatcherConstructed
    /\ NoSession
    /\ NoScraping
    /\ NoRuns
    /\ NoDownloads

EbayFrame ==
    UNCHANGED <<reference_embeddings, call, ret, jsonVars, cacheVars, sessionVars,
                runVars, webVars, downloadVars, matched_dir,
                conversation_history, chat_log>>

\* result_file = scrape_ebay(query, max_results, output_folder)
ScrapeEbayCall ==
    \E s \in 1..Len(sessions), outcome \in EbayOutcomes, n \in 0..MaxListings :
        /\ sessions[s].pc = "scrape_ebay"
        /\ IF outcome = "written"
           THEN LET results == EbayResults(sessions[s].session_id, n)
                    name == output_json(sessions[s].today)
                IN  /\ intermediate_files' = WriteFile(intermediate_files, name, results)
                    /\ sessions' = [sessions EXCEPT ![s].returned = results,
                                                    ![s].result_file = PyStr(name),
                                                    ![s].pc = "exists"]
           ELSE /\ sessions' = [sessions EXCEPT ![s].pc = "exists"]
                /\ UNCHANGED intermediate_files
        /\ EbayFrame

\* if result_file and os.path.exists(result_file)
CheckResultFile ==
    \E s \in 1..Len(sessions) :
        /\ sessions[s].pc = "exists"
        /\ sessions' = [sessions EXCEPT ![s].pc =
               IF sessions[s].result_file # PyNone
                  /\ Exists(intermediate_files, sessions[s].result_file.v)
               THEN "load" ELSE "done"]
        /\ UNCHANGED intermediate_files
        /\ EbayFrame

\* with open(result_file) as f: results = json.load(f); a file that is gone
\* raises, and the handler of run_ebay_scraper returns None
LoadResults ==
    \E s \in 1..Len(sessions) :
        /\ sessions[s].pc = "load"
        /\ sessions' =
               IF Exists(intermediate_files, sessions[s].result_file.v)
               THEN [sessions EXCEPT ![s].results = intermediate_files[sessions[s].result_file.v],
                                     ![s].pc = "save"]
               ELSE [sessions EXCEPT ![s].pc = "done"]
        /\ UNCHANGED intermediate_files
        /\ EbayFrame

\* session_result_file = self._save_results_to_session(results, "eBay",
\* "ebay_results.json"); self.all_image_folders.append(ebay_folder)
SaveToSession ==
    \E s \in 1..Len(sessions), writable \in BOOLEAN :
        /\ sessions[s].pc = "save"
        /\ sessions' = [sessions EXCEPT
               ![s].session_result_file =
                   IF sessions[s].results # <<>> /\ writable THEN sessions[s].results ELSE <<>>,
               ![s].session_log =
                   IF sessions[s].results # <<>> /\ ~writable
                   THEN Append(@, "Error saving eBay results") ELSE @,
               ![s].all_image_folders = Append(@, "ebay"),
               ![s].pc = "remove"]
        /\ UNCHANGED intermediate_files
        /\ EbayFrame

\* try: os.remove(result_file) except: pass
CleanUp ==
    \E s \in 1..Len(sessions) :
        /\ sessions[s].pc = "remove"
        /\ intermediate_files' = RemoveFile(intermediate_files, sessions[s].result_file.v)
        /\ sessions' = [sessions EXCEPT ![s].pc = "done"]
        /\ EbayFrame

NextEbay == ScrapeEbayCall \/ CheckResultFile \/ LoadResults \/ SaveToSession \/ CleanUp

SpecEbay == InitEbay /\ [][NextEbay]_vars

\* C23 as stated: the eBay listings a session has stored in its session
\* folder when its eBay step is over are exactly the listings its own
\* scrape_ebay call returned, unless writing them into the session folder
\* failed.
Cex_C23 ==
    \A s \in 1..Len(sessions) :
        (sessions[s].pc = "done"
         /\ ~Mem("Error saving eBay results", sessions[s].session_log)) =>
            sessions[s].session_result_file = sessions[s].returned

(***************************************************************************)
(* The search query of a web search (web/app.py): the checks of            *)
(* /start_search and /simple, and the query handle_chat_message takes from *)
(* WatchChatbot.extract_watch_info.  A message is a sequence of words; a   *)
(* string built by ' '.join is the sequence of its words and the blanks    *)
(* between them, the empty string being the empty sequence.                *)
(***************************************************************************)
MaxWords == 2       \* most words in a chat message

Words == {"Rolex", "omega", "gold", "silver", "blue", "5167/1A-001", "5820396", "lost"}

\* str.lower() of the words that occur
lower == [w \in Words |-> IF w = "Rolex" THEN "rolex" ELSE w]

brands == <<"rolex", "omega", "patek philippe", "audemars piguet", "cartier",
            "breitling", "tag heuer", "seiko", "citizen", "tissot", "casio">>
materials == <<"gold", "silver", "steel", "platinum", "rose gold", "titanium">>
colors == <<"blue", "black", "white", "green", "red", "brown", "silver">>

\* which of the three model_patterns matches a word (0: none)
model_patterns == [w \in Words |-> IF w = "5167/1A-001" THEN 1 ELSE 0]

\* which of the three serial_patterns matches a word (0: none)
serial_patterns == [w \in Words |-> IF w = "5820396" THEN 1 ELSE 0]

\* brand in message_lower, material in message_lower, color in message_lower
InMessage(x, message) == \E i \in 1..Len(message) : lower[message[i]] = x

\* for brand in brands: if brand in message_lower: found_brand = brand; break
found_brand(message) ==
    LET found == SelectSeq(brands, LAMBDA b : InMessage(b, message))
    IN  IF found = <<>> THEN <<>> ELSE <<Head(found)>>

\* re.findall of the patterns, in the order of the patterns and then of the message
FindAll(patterns, message) ==
    SelectSeq(message, LAMBDA w : patterns[w] = 1)
    \o SelectSeq(message, LAMBDA w : patterns[w] = 2)
    \o SelectSeq(message, LAMBDA w : patterns[w] = 3)

\* ' '.join(parts)
RECURSIVE Join(_)
Join(parts) ==
    IF parts = <<>> THEN <<>>
    ELSE IF Len(parts) = 1 THEN parts
    ELSE <<Head(parts), " ">> \o Join(Tail(parts))

NeedsClarification == [needs_clarification |-> TRUE]

extract_watch_info_fallback(message) ==
    LET found_materials == SelectSeq(materials, LAMBDA m : InMessage(m, message))
        found_colors == SelectSeq(colors, LAMBDA c : InMessage(c, message))
        found_models == FindAll(model_patterns, message)
        found_serials == FindAll(serial_patterns, message)
        search_parts == found_brand(message) \o found_materials \o found_colors \o found_models
    IN  IF search_parts # <<>> \/ found_models # <<>> \/ found_serials # <<>>
        THEN [search_query |-> Join(search_parts),
              confidence |-> IF found_models # <<>> \/ found_serials # <<>> THEN 90
                             ELSE IF found_brand(message) # <<>> THEN 70 ELSE 50,
              models |-> found_models,
              serials |-> found_serials]
        ELSE NeedsClarification

\* what the two free AI services come to: no usable answer, or the JSON
\* object of the prompt's example
AiAnswers == {"unavailable", "no json", "json"}

extract_watch_info(message, ai) ==
    IF ai = "json"
    THEN [search_query |-> <<"rolex", " ", "gold", " ", "blue">>, confidence |-> 80]
    ELSE extract_watch_info_fallback(message)

RECURSIVE Messages(_)
Messages(n) ==
    IF n = 0 THEN {<<>>}
    ELSE LET shorter == Messages(n - 1)
         IN  shorter \cup {Append(m, w) : m \in {s \in shorter : Len(s) = n - 1}, w \in Words}

\* the search_query field of a request: missing, or a string
QueryFields == {PyNone, PyStr(<<>>), PyStr(<<"rolex">>), PyStr(<<"rolex", " ", "gold">>)}

\* not query
Falsy(query) == query = PyNone \/ query.v = <<>>

Answered(status) == [started |-> FALSE, status |-> status]
Started(query) == [started |-> TRUE, search_query |-> query]

InitQuery ==
    /\ call = NoCall
    /\ ret = PyNone
    /\ reference_embeddings = <<>>
    /\ json_file = NoFile
    /\ loaded = NotLoaded
    /\ MatcherConstructed
    /\ NoSession
    /\ NoScraping
    /\ NoRuns
    /\ NoDownloads
    /\ NoApp

QueryFrame ==
    UNCHANGED <<reference_embeddings, jsonVars, cacheVars, sessionVars,
                runVars, webVars, downloadVars, appVars>>

\* POST /start_search up to the construction of the orchestrator
StartSearchRequest ==
    \E query \in QueryFields, reference_files \in BOOLEAN, constructed \in BOOLEAN :
        /\ call' = [op |-> "start_search", query |-> query,
                    reference_files |-> reference_files]
        /\ ret' = IF Falsy(query) THEN Answered(400)
                  ELSE IF ~reference_files THEN Answered(400)
                  ELSE IF ~constructed THEN Answered(500)
                  ELSE Started(query.v)
        /\ QueryFrame

\* POST /simple up to the construction of the orchestrator
SimpleRequest ==
    \E query \in QueryFields, constructed \in BOOLEAN :
        /\ call' = [op |-> "simple_interface", query |-> query]
        /\ ret' = IF Falsy(query) THEN Answered(200)
                  ELSE IF ~constructed THEN Answered(200)
                  ELSE Started(query.v)
        /\ QueryFrame

\* a chat_message event up to the construction of the orchestrator
ChatMessage ==
    \E message \in Messages(MaxWords), ai \in AiAnswers,
       reference_files \in BOOLEAN, constructed \in BOOLEAN :
        LET watch_info == extract_watch_info(message, ai)
        IN  /\ call' = [op |-> "handle_chat_message", message |-> message, ai |-> ai,
                        reference_files |-> reference_files]
            /\ ret' = IF "search_query" \in DOMAIN watch_info
                         /\ watch_info.confidence > 60
                         /\ reference_files /\ constructed
                      THEN Started(watch_info.search_query)
                      ELSE Answered(200)
            /\ QueryFrame

NextQuery == StartSearchRequest \/ SimpleRequest \/ ChatMessage

SpecQuery == InitQuery /\ [][NextQuery]_vars

SearchStarted == call # NoCall /\ ret.started

\* C25 as stated: no search is started with an empty search query.
Cex_C25 == SearchStarted => ret.search_query # <<>>

(***************************************************************************)
(* run_search of handle_chat_message (web/app.py): after scraping and      *)
(* matching, every likely match is traced back to the listing whose image  *)
(* it is, and the matches are emitted to the chat.  Scores are hundredths. *)
(***************************************************************************)
MaxDetails == 2     \* most match records of a platform
MaxItems == 2       \* most listings in a scraped result file

\* 'matches': matches[:5]
ChatMatches == 5

\* a listing of the scraped result file; terms: how many of the search_terms
\* occur in its title and description
Items ==
    {[image_path |-> <<"scraped_images/ebay", "ebay_1_101500.jpg">>,
      url |-> "https://www.ebay.com/itm/1", terms |-> 0],
     [image_path |-> <<"scraped_images/ebay", "ebay_1_101500.jpg">>,
      url |-> "https://www.ebay.com/itm/2", terms |-> 2],
     [image_path |-> <<"scraped_images/ebay", "ebay_2_101501.jpg">>,
      url |-> "https://www.ebay.com/itm/3", terms |-> 1]}

\* the match records of the platform
Details ==
    {[test_image |-> "ebay_1_101500.jpg", is_likely_match |-> TRUE, best_score |-> 85],
     [test_image |-> "ebay_2_101501.jpg", is_likely_match |-> TRUE, best_score |-> 62],
     [test_image |-> "ebay_3_101502.jpg", is_likely_match |-> TRUE, best_score |-> 70],
     [test_image |-> "ebay_1_101500.jpg", is_likely_match |-> FALSE, best_score |-> 40]}

RECURSIVE SeqsOf(_, _)
SeqsOf(S, n) ==
    IF n = 0 THEN {<<>>}
    ELSE LET shorter == SeqsOf(S, n - 1)
         IN  shorter \cup {Append(s, x) : s \in {t \in shorter : Len(t) = n - 1}, x \in S}

\* a local variable of run_search that no statement has assigned yet
Unbound == [t |-> "unbound"]

\* any(image_filename in img_path for img_path in item_images)
ImageOf(image_filename, item) == item.image_path[2] = image_filename

\* the loop over platform_data up to its break: the first listing the image
\* belongs to, as a one-element sequence, or <<>>
FindListing(image_filename, platform_data) ==
    LET found == SelectSeq(platform_data, LAMBDA item : ImageOf(image_filename, item))
    IN  IF found = <<>> THEN <<>> ELSE <<Head(found)>>

\* serial_match_score += 0.1 for each term in listing_text
SerialMatchScore(item) == 10 * item.terms

ChatMatch(match, listing, serial_match_score) ==
    [title |-> IF listing = <<>> THEN "Watch on ebay" ELSE "Patek Philippe Nautilus",
     platform |-> "ebay",
     confidence |-> match.best_score + serial_match_score.v,
     url |-> IF listing = <<>> THEN PyNone ELSE PyStr(listing[1].url),
     serial_match |-> serial_match_score.v > 0]

\* the loop over result['match_details']; serial_match_score (like
\* listing_date) is assigned only where a listing is found, and is read by
\* matches.append for every likely match
RECURSIVE ChatLoop(_, _, _, _, _)
ChatLoop(match_details, i, platform_data, serial_match_score, chat_matches) ==
    IF i > Len(match_details) THEN [raised |-> FALSE, matches |-> chat_matches]
    ELSE IF ~match_details[i].is_likely_match
         THEN ChatLoop(match_details, i + 1, platform_data, serial_match_score, chat_matches)
    ELSE LET listing == FindListing(match_details[i].test_image, platform_data)
             score == IF listing = <<>> THEN serial_match_score
                      ELSE PyFloat(SerialMatchScore(listing[1]))
         IN  IF score = Unbound
             THEN [raised |-> TRUE, matches |-> chat_matches]
             ELSE ChatLoop(match_details, i + 1, platform_data, score,
                      Append(chat_matches, ChatMatch(match_details[i], listing, score)))

SearchResults(found) == [event |-> "search_results", matches |-> found]
BotResponse == [event |-> "bot_response", matches |-> <<>>]

\* run_search; scraped: run_all_scrapers and run_matching_analysis return
\* without raising
run_search(scraped, match_details, platform_data) ==
    IF ~scraped THEN BotResponse
    ELSE LET r == ChatLoop(match_details, 1, platform_data, Unbound, <<>>)
         IN  IF r.raised THEN BotResponse
             ELSE SearchResults(FirstN(r.matches, ChatMatches))

InitChat ==
    /\ call = NoCall
    /\ ret = PyNone
    /\ reference_embeddings = <<>>
    /\ json_file = NoFile
    /\ loaded = NotLoaded
    /\ MatcherConstructed
    /\ NoSession
    /\ NoScraping
    /\ NoRuns
    /\ NoDownloads
    /\ NoApp

\* the thread started by handle_chat_message
RunSearch ==
    /\ call = NoCall
    /\ \E scraped \in BOOLEAN, match_details \in SeqsOf(Details, MaxDetails),
          platform_data \in SeqsOf(Items, MaxItems) :
         /\ call' = [op |-> "run_search", scraped |-> scraped,
                     match_details |-> match_details, platform_data |-> platform_data]
         /\ ret' = run_search(scraped, match_details, platform_data)
    /\ UNCHANGED <<reference_embeddings, jsonVars, cacheVars, sessionVars,
                   runVars, webVars, downloadVars, appVars>>

NextChat == RunSearch

SpecChat == InitChat /\ [][NextChat]_vars

SearchRan == call.op = "run_search"

\* C26 as stated: a chat search whose scraping and matching complete
\* without raising emits a search_results event.
Cex_C26 == (SearchRan /\ call.scraped) => ret.event = "search_results"

\* the likely matches of the search, in the order of the match records
LikelyDetails == SelectSeq(call.match_details, LAMBDA m : m.is_likely_match)

\* how many search terms occur in the text of the match's own listing
OwnTerms(m) ==
    LET listing == FindListing(m.test_image, call.platform_data)
    IN  IF listing = <<>> THEN 0 ELSE listing[1].terms

\* C27 as stated: the confidence of every match of a search_results event
\* is the match's best_score plus 0.1 for each search term in its own
\* listing, and serial_match tells whether there is such a term.
Cex_C27 ==
    (SearchRan /\ ret.event = "search_results") =>
        \A i \in 1..Len(ret.matches) :
            /\ ret.matches[i].confidence = LikelyDetails[i].best_score + 10 * OwnTerms(LikelyDetails[i])
            /\ ret.matches[i].serial_match <=> OwnTerms(LikelyDetails[i]) > 0

(***************************************************************************)
(* WatchChatbot.generate_response and the conversation history it keeps    *)
(* for each user (web/app.py).                                             *)
(***************************************************************************)
MaxCalls == 6       \* most generate_response calls

\* len(self.conversation_history[user_id]) > 10 ... [-10:]
HistoryLimit == 10

UserIds == {"user_1", "user_2"}

\* the messages sent to generate_response
HistoryMessages == {"gold", "lost"}

\* generate_response_fallback on the messages that occur
generate_response_fallback(message) ==
    IF lower[message] \in {"hello", "hi", "hey"}
    THEN "Hello! I'm here to help you find your lost watch."
    ELSE IF lower[message] \in {"help", "start", "find"}
    THEN "I can help you search for your lost watch across eBay, Reddit, and Facebook!"
    ELSE IF lower[message] \in {"rolex", "omega", "patek", "cartier"}
    THEN "Great! I can see you're looking for a watch."
    ELSE IF lower[message] \in {"gold", "silver", "steel"}
    THEN "I can see you mentioned the material of your watch."
    ELSE IF lower[message] \in {"blue", "black", "white", "green"}
    THEN "The color details will help a lot in the search!"
    ELSE "I understand you're looking for your lost watch."

\* generate_response_free_ai: the answer of a free AI service when one
\* gives an answer of more than 10 characters, else the keyword response
generate_response_free_ai(message, ai) ==
    IF ai THEN "Happy to help you describe your watch." ELSE generate_response_fallback(message)

AMessage(role, content) == [role |-> role, content |-> content]

\* a history that keeps its first 10 messages
Trim_oldest(history) ==
    IF Len(history) > HistoryLimit THEN SubSeq(history, 1, HistoryLimit) ELSE history

\* self.conversation_history[user_id][-10:] when there are more than 10
Trim(history) ==
    IF Len(history) > HistoryLimit
    THEN SubSeq(history, Len(history) - HistoryLimit + 1, Len(history))
    ELSE history

\* self.conversation_history.get(user_id), [] for a user not yet in it
HistoryOf(histories, user_id) ==
    IF user_id \in DOMAIN histories THEN histories[user_id] ELSE <<>>

generate_response(histories, message, user_id, ai) ==
    LET response == generate_response_free_ai(message, ai)
    IN  (user_id :> Trim(HistoryOf(histories, user_id)
                         \o <<AMessage("user", message), AMessage("assistant", response)>>))
        @@ histories

RECURSIVE CallsMade(_)
CallsMade(users) ==
    IF users = {} THEN 0
    ELSE LET u == CHOOSE x \in users : TRUE
         IN  Len(HistoryOf(chat_log, u)) \div 2 + CallsMade(users \ {u})

InitHistory ==
    /\ conversation_history = <<>>
    /\ chat_log = <<>>
    /\ intermediate_files = <<>>
    /\ sessions = <<>>
    /\ matched_dir = {}
    /\ call = NoCall
    /\ ret = PyNone
    /\ reference_embeddings = <<>>
    /\ json_file = NoFile
    /\ loaded = NotLoaded
    /\ MatcherConstructed
    /\ NoSession
    /\ NoScraping
    /\ NoRuns
    /\ NoDownloads

\* chatbot.generate_response(message, user_id)
GenerateResponse ==
    /\ CallsMade(UserIds) < MaxCalls
    /\ \E user_id \in UserIds, message \in HistoryMessages, ai \in BOOLEAN :
         /\ conversation_history' = generate_response(conversation_history, message, user_id, ai)
         /\ chat_log' = (user_id :> (HistoryOf(chat_log, user_id)
                            \o <<AMessage("user", message),
                                 AMessage("assistant", generate_response_free_ai(message, ai))>>))
                        @@ chat_log
         /\ call' = [op |-> "generate_response", message |-> message, user_id |-> user_id]
         /\ ret' = PyStr(generate_response_free_ai(message, ai))
    /\ UNCHANGED <<reference_embeddings, jsonVars, cacheVars, sessionVars,
                   runVars, webVars, downloadVars, intermediate_files, sessions, matched_dir>>

NextHistory == GenerateResponse

SpecHistory == InitHistory /\ [][NextHistory]_vars

\* the last n elements of a sequence, all of them when it has fewer
LastOf(s, n) == IF Len(s) > n THEN SubSeq(s, Len(s) - n + 1, Len(s)) ELSE s

\* C29: after any sequence of generate_response calls every user's history
\* holds at most 10 messages, and they are the most recent messages added
\* for that user, in the order they were added.
Thm_C29 ==
    \A user_id \in UserIds :
        /\ Len(HistoryOf(conversation_history, user_id)) <= 10
        /\ HistoryOf(conversation_history, user_id) = LastOf(HistoryOf(chat_log, user_id), 10)

\* a user whose sixth call pushed the two oldest messages out
Wit_C29 ==
    \E user_id \in UserIds :
        /\ Len(HistoryOf(chat_log, user_id)) > 10
        /\ Len(HistoryOf(conversation_history, user_id)) = 10
        /\ conversation_history[user_id][1].content # chat_log[user_id][1].content

(***************************************************************************)
(* Scores as the floating-point numbers they are.  A Python float is an    *)
(* IEEE double: a sign, an exponent and a significand of 53 bits, kept     *)
(* here as its upper 24 bits (hi) and its lower 29 bits (lo).  The CLIP    *)
(* model loaded at match_watch.py:23 computes in float32 (in float16 on a  *)
(* GPU), so torch.cosine_similarity gives a number whose significand has   *)
(* at most 24 bits, and .item() widens it to a double whose lower 29 bits  *)
(* are zero.                                                               *)
(***************************************************************************)
Double(sign, exp, hi, lo) == [sign |-> sign, exp |-> exp, hi |-> hi, lo |-> lo]

\* the literals 0.70, 0.80 and 0.90 of match_watch.py as doubles, by hundredths
FloatLiteral ==
    (70 :> Double(1, -1, 11744051, 107374182))
    @@ (80 :> Double(1, -1, 13421772, 429496730))
    @@ (90 :> Double(1, -1, 15099494, 214748365))

\* best_score = -1.0
SentinelDouble == Double(-1, 0, 2^23, 0)

MagnitudeLess(a, b) ==
    \/ a.exp < b.exp
    \/ a.exp = b.exp /\ a.hi < b.hi
    \/ a.exp = b.exp /\ a.hi = b.hi /\ a.lo < b.lo

\* a < b on doubles other than zero
Less(a, b) ==
    IF a.sign # b.sign THEN a.sign < b.sign
    ELSE IF a.sign = 1 THEN MagnitudeLess(a, b)
    ELSE MagnitudeLess(b, a)

\* a similarity computed and returned in double precision
cosine_similarity_float64(exact) == exact

\* torch.cosine_similarity(test_embedding, ref_embedding).item(): the exact
\* cosine rounded to the nearest float32 (ties to even) and widened
cosine_similarity_item(exact) ==
    LET up == exact.lo > 2^28 \/ (exact.lo = 2^28 /\ exact.hi % 2 = 1)
    IN  IF ~up THEN [exact EXCEPT !.lo = 0]
        ELSE IF exact.hi + 1 = 2^24
             THEN [exact EXCEPT !.exp = @ + 1, !.hi = 2^23, !.lo = 0]
        ELSE [exact EXCEPT !.hi = @ + 1, !.lo = 0]

\* 'is_likely_match': best_score >= threshold
LikelyAt(best_score, threshold) == ~Less(best_score, threshold)

\* get_confidence_level on a double
ConfidenceLevelOf(score) ==
    IF Less(FloatLiteral[VeryLikelyCutoff], score) THEN "Very Likely Match"
    ELSE IF Less(FloatLiteral[PossibleCutoff], score) THEN "Possible Match"
    ELSE IF Less(FloatLiteral[WeakCutoff], score) THEN "Weak Match"
    ELSE "No Match"

\* the cosines tried: around each cutoff, to the last bit of a float32 and
\* of a double, and 0.25, 0.5, 0.75, 1.0 and -1.0
ExactCosines ==
    LET his == UNION {{FloatLiteral[c].hi - 1, FloatLiteral[c].hi, FloatLiteral[c].hi + 1} :
                          c \in DOMAIN FloatLiteral}
               \cup {2^23, 3 * 2^22}
        los == UNION {{FloatLiteral[c].lo - 1, FloatLiteral[c].lo, FloatLiteral[c].lo + 1} :
                          c \in DOMAIN FloatLiteral}
               \cup {0, 2^28 - 1, 2^28, 2^28 + 1, 2^29 - 1}
    IN  {Double(1, -1, hi, lo) : hi \in his, lo \in los}
        \cup {Double(1, 0, 2^23, 0), Double(-1, 0, 2^23, 0), Double(1, -2, 2^23, 0)}

InitFloat ==
    /\ call = NoCall
    /\ ret = PyNone
    /\ reference_embeddings = <<>>
    /\ json_file = NoFile
    /\ loaded = NotLoaded
    /\ MatcherConstructed
    /\ NoSession
    /\ NoScraping
    /\ NoRuns
    /\ NoDownloads
    /\ NoApp

\* match_single_image(test_image_path) with the default threshold, against
\* no reference or one
MatchAtDefaultThreshold ==
    /\ call = NoCall
    /\ \E exact \in ExactCosines, references \in 0..1 :
         LET similarity == cosine_similarity_item(exact)
             best_score == IF references = 1 /\ Less(SentinelDouble, similarity)
                           THEN similarity ELSE SentinelDouble
         IN  /\ call' = [op |-> "match_single_image", exact |-> exact,
                         references |-> references]
             /\ ret' = [best_score |-> best_score,
                        is_likely_match |-> LikelyAt(best_score, FloatLiteral[DefaultThreshold]),
                        confidence_level |-> ConfidenceLevelOf(best_score)]
    /\ UNCHANGED <<reference_embeddings, jsonVars, cacheVars, sessionVars,
                   runVars, webVars, downloadVars, appVars>>

NextFloat == MatchAtDefaultThreshold

SpecFloat == InitFloat /\ [][NextFloat]_vars

\* C30: with the default threshold 0.80, is_likely_match of a match record
\* is true exactly when its confidence_level is Possible Match or Very
\* Likely Match.
Thm_C30 ==
    call # NoCall =>
        (ret.is_likely_match <=> ret.confidence_level \in {"Possible Match", "Very Likely Match"})

\* a cosine of exactly 0.80 (as a double), which the float32 computation
\* returns as 0.800000011920929: a likely match labelled Possible Match
Wit_C30 ==
    /\ call # NoCall
    /\ call.exact = FloatLiteral[DefaultThreshold]
    /\ call.references = 1
    /\ ret.best_score = Double(1, -1, 13421773, 0)
    /\ ret.is_likely_match
    /\ ret.confidence_level = "Possible Match"

====
